---- MODULE Spec2Model ----
(***************************************************************************)
(* A model of the hsm runtime (package hsm): the path algebra, the model   *)
(* builder's precomputed transition paths, the two-bucket event queue, the *)
(* processing mutex with its idle signal, and the instance runtime         *)
(* (Start, Dispatch, process, Stop, Restart).                              *)
(*                                                                         *)
(* Strings of the program (qualified names, event names, patterns) are     *)
(* sequences of one-character strings, so that path.Dir, strings.HasPrefix *)
(* and the glob matcher are computed character by character as the code    *)
(* computes them: "/s/a" is <<"/","s","/","a">>.                           *)
(***************************************************************************)
EXTENDS Integers, Sequences, FiniteSets, TLC

(***************************************************************************)
(* Bounds of the model.                                                    *)
(***************************************************************************)
\* number of Dispatch calls made by callers
MaxDispatch == 2
\* number of ErrorEvent dispatches made by recovered panics
MaxError == 1
\* number of Stop / Restart calls
MaxControl == 1
\* number of calls (Dispatch, Stop, Restart) concurrent callers make
MaxCalls == 2
\* the events pushed onto a queue that is exercised on its own
MaxPush == 4
\* the goroutines an activity is run on
MaxTimer == 2
\* the instances started in one context, and the DispatchTo calls made on them
MaxInstances == 2
MaxTo == 2
\* the length of the names and patterns Match is applied to, and of a pattern list
MaxLen == 3
MaxPatterns == 2
\* the events in the queue beyond which the Every timer is not reset any more
MaxQueued == 2
\* the pops of one event that are counted
MaxPopped == 6

(***************************************************************************)
(* Strings.                                                                *)
(***************************************************************************)
Slash == <<"/">>
Dot == <<".">>
Empty == <<>>

HasPrefix(s, prefix) ==
    /\ Len(prefix) <= Len(s)
    /\ SubSeq(s, 1, Len(prefix)) = prefix

LastSlash(p) ==
    LET idx == {i \in 1..Len(p) : p[i] = "/"}
    IN  IF idx = {} THEN 0 ELSE CHOOSE i \in idx : \A j \in idx : j <= i

\* path.Dir on a clean path
Dir(p) ==
    IF LastSlash(p) = 0 THEN Dot
    ELSE IF LastSlash(p) = 1 THEN Slash
    ELSE SubSeq(p, 1, LastSlash(p) - 1)

\* path.Clean on a path that is empty or already clean
Clean(p) == IF p = Empty THEN Dot ELSE p

\* path.Join(owner, name) for a clean absolute owner and a plain name
Join(owner, name) ==
    IF owner = Slash THEN owner \o name ELSE owner \o Slash \o name

(***************************************************************************)
(* 4.A Path algebra.                                                       *)
(***************************************************************************)
RECURSIVE IsAncestorLoop(_, _)
IsAncestorLoop(parent, current) ==
    IF parent = Slash THEN FALSE
    ELSE IF parent = current THEN TRUE
    ELSE IsAncestorLoop(Dir(parent), current)

IsAncestor(current, target) ==
    LET c == Clean(current)
        t == Clean(target)
    IN  IF c = t \/ c = Dot \/ t = Dot THEN FALSE
        ELSE IF c = Slash THEN TRUE
        ELSE IsAncestorLoop(Dir(t), c)

RECURSIVE LCA(_, _)
LCA(a, b) ==
    IF a = b THEN Dir(a)
    ELSE IF a = Empty THEN b
    ELSE IF b = Empty THEN a
    ELSE IF Dir(a) = Dir(b) THEN Dir(a)
    ELSE IF IsAncestor(a, b) THEN a
    ELSE IF IsAncestor(b, a) THEN b
    ELSE LCA(Dir(a), Dir(b))

\* parse: the goto loop of the glob matcher; vi/pi are 0-based as in the code,
\* psi/vsi are the backtrack positions of the last '*' (-1: none).
RECURSIVE parseLoop(_, _, _, _, _, _)
parseLoop(value, pattern, vi, pi, psi, vsi) ==
    LET vl == Len(value)
        pl == Len(pattern)
    IN  IF pi < pl /\ pattern[pi + 1] = "*"
        THEN IF pi + 1 = pl THEN TRUE
             ELSE parseLoop(value, pattern, vi, pi + 1, pi, vi)
        ELSE IF vi < vl /\ pi < pl /\ pattern[pi + 1] = value[vi + 1]
        THEN parseLoop(value, pattern, vi + 1, pi + 1, psi, vsi)
        ELSE IF vi = vl /\ pi = pl THEN TRUE
        ELSE IF vi = vl /\ pi < pl
        THEN \A k \in (pi + 1)..pl : pattern[k] = "*"
        ELSE IF psi # -1
        THEN IF vsi + 1 > vl THEN FALSE
             ELSE parseLoop(value, pattern, vsi + 1, psi + 1, psi, vsi + 1)
        ELSE FALSE

\* a matcher that never goes back to the last '*': it compares the pattern
\* with the value character by character
parseLiteral(value, pattern) == value = pattern

parse(value, pattern) == parseLoop(value, pattern, 0, 0, -1, -1)

\* Match(value, patterns...): the loop over the patterns, from pattern i on.
\* The empty-pattern fast path returns from the whole function.
RECURSIVE MatchFrom(_, _, _)
MatchFrom(value, patterns, i) ==
    IF i > Len(patterns) THEN FALSE
    ELSE LET pattern == patterns[i]
             patternLen == Len(pattern)
         IN  IF pattern = value THEN TRUE
             ELSE IF pattern = <<"*">> THEN TRUE
             ELSE IF patternLen = 0 THEN value = Empty
             ELSE IF pattern[patternLen] = "*"
                     /\ HasPrefix(value, SubSeq(pattern, 1, patternLen - 1))
             THEN TRUE
             ELSE IF parse(value, pattern) THEN TRUE
             ELSE MatchFrom(value, patterns, i + 1)

Match(value, patterns) == MatchFrom(value, patterns, 1)

hasWildcard(events) == \E i \in 1..Len(events) : \E k \in 1..Len(events[i]) : events[i][k] = "*"

(***************************************************************************)
(* The model under execution: the result of Define() on one declaration.   *)
(*                                                                         *)
(*   /            initial -> /s ; Transition(On("p"), Effect(Rp.effect))   *)
(*   /s           entry, exit, initial -> /s/a                             *)
(*   /s/a         entry, exit, initial -> /s/a/x (with an effect)          *)
(*   /s/a/x       2 entries, exit, Defer("u", "a")                         *)
(*   /s/b         entry, exit                                              *)
(*   /t           entry, exit                                              *)
(*   /c           Choice                                                   *)
(*   /f           Final                                                    *)
(*   /w           entry, exit; After transition to /t                      *)
(*   /v           entry, exit; Every transition to /t                      *)
(***************************************************************************)
Root == Slash
S == <<"/", "s">>
A == <<"/", "s", "/", "a">>
X == <<"/", "s", "/", "a", "/", "x">>
B == <<"/", "s", "/", "b">>
T == <<"/", "t">>
C == <<"/", "c">>
F == <<"/", "f">>
W == <<"/", "w">>
V == <<"/", "v">>

\* Initial(): name := ".initial"
InitialName == <<".", "i", "n", "i", "t", "i", "a", "l">>

\* the event names of InitialEvent, ErrorEvent and FinalEvent
InitialEventName == <<"h", "s", "m", "_", "i", "n", "i", "t", "i", "a", "l">>
ErrorEventName == <<"h", "s", "m", "_", "e", "r", "r", "o", "r">>
FinalEventName == <<"h", "s", "m", "_", "f", "i", "n", "a", "l">>
\* the name After() gives its time event: the qualified name of the expression
TimeEventName == <<"/", "w", "/", "a", "f", "t", "e", "r">>
\* the name Every() gives its time event
EveryEventName == <<"/", "v", "/", "e", "v", "e", "r", "y">>

\* the element kinds the runtime switches on
StateKind == "State"
FinalStateKind == "FinalState"
InitialKind == "Initial"
ChoiceKind == "Choice"

\* the event kinds; push() sorts events by CompletionEvent or not
EventKind == "Event"
CompletionEventKind == "CompletionEvent"
ErrorEventKind == "ErrorEvent"
TimeEventKind == "TimeEvent"

NoGuard == ""

Vx(k, init, en, ex, df, tr) ==
    [kind |-> k, initial |-> init, entry |-> en, exit |-> ex, deferred |-> df, declared |-> tr]

\* model.members restricted to the vertices (states, final states, pseudostates);
\* "declared" lists the outgoing transitions in the order Transition() appended them
Vertices ==
    (Root :> Vx(StateKind, Join(Root, InitialName), <<>>, <<>>, <<>>, <<"Rp", "Ry", "Re">>)) @@
    (S :> Vx(StateKind, Join(S, InitialName), <<"s.entry">>, <<"s.exit">>, <<>>, <<"Sc", "Su", "Sx">>)) @@
    (A :> Vx(StateKind, Join(A, InitialName), <<"a.entry">>, <<"a.exit">>, <<>>, <<"Ab", "Ae">>)) @@
    (X :> Vx(StateKind, Empty, <<"x.entry1", "x.entry2">>, <<"x.exit">>, << <<"u">>, <<"a">> >>, <<"Xa", "Xd", "Xw", "Xv">>)) @@
    (B :> Vx(StateKind, Empty, <<"b.entry">>, <<"b.exit">>, << <<"a">> >>, <<"Bc", "Bd">>)) @@
    (T :> Vx(StateKind, Empty, <<"t.entry">>, <<"t.exit">>, <<>>, <<"Tw", "Ta">>)) @@
    (C :> Vx(ChoiceKind, Empty, <<>>, <<>>, <<>>, <<"C1", "C2">>)) @@
    (F :> Vx(FinalStateKind, Empty, <<>>, <<>>, <<>>, <<>>)) @@
    (W :> Vx(StateKind, Empty, <<"w.entry">>, <<"w.exit">>, <<>>, <<"Ww", "Wt", "We">>)) @@
    (V :> Vx(StateKind, Empty, <<"v.entry">>, <<"v.exit">>, <<>>, <<"Vt", "Vp">>)) @@
    (Join(Root, InitialName) :> Vx(InitialKind, Empty, <<>>, <<>>, <<>>, <<"init0">>)) @@
    (Join(S, InitialName) :> Vx(InitialKind, Empty, <<>>, <<>>, <<>>, <<"initS">>)) @@
    (Join(A, InitialName) :> Vx(InitialKind, Empty, <<>>, <<>>, <<>>, <<"initA">>))

VertexNames == DOMAIN Vertices

Tn(src, tgt, g, ef, ev) ==
    [source |-> src, target |-> tgt, guard |-> g, effect |-> ef, events |-> ev]

\* the transitions as declared: source, target, guard, effects, event patterns
Transitions ==
    [init0 |-> Tn(Join(Root, InitialName), S, NoGuard, <<"init0.effect">>, <<InitialEventName>>),
     initS |-> Tn(Join(S, InitialName), A, NoGuard, <<>>, <<InitialEventName>>),
     initA |-> Tn(Join(A, InitialName), X, NoGuard, <<"initA.effect">>, <<InitialEventName>>),
     Rp |-> Tn(Root, Empty, NoGuard, <<"Rp.effect">>, << <<"p">> >>),
     Ry |-> Tn(Root, Empty, NoGuard, <<"Ry.effect">>, << <<"e", "*">> >>),
     Re |-> Tn(Root, Empty, NoGuard, <<"Re.effect">>, << <<"e">> >>),
     Sc |-> Tn(S, X, NoGuard, <<"Sc.effect">>, << <<"c">> >>),
     Su |-> Tn(S, T, NoGuard, <<>>, << <<"u">> >>),
     Sx |-> Tn(S, T, NoGuard, <<>>, <<ErrorEventName>>),
     Ab |-> Tn(A, A, NoGuard, <<"Ab.effect">>, << <<"b">> >>),
     Ae |-> Tn(A, Empty, NoGuard, <<"Ae.effect">>, << <<"e">> >>),
     Xa |-> Tn(X, C, NoGuard, <<"Xa.effect1", "Xa.effect2">>, << <<"a">> >>),
     Xd |-> Tn(X, F, NoGuard, <<"Xd.effect">>, << <<"d">> >>),
     Xw |-> Tn(X, W, NoGuard, <<>>, << <<"w">> >>),
     Ww |-> Tn(W, W, NoGuard, <<"Ww.effect">>, << <<"w">> >>),
     Wt |-> Tn(W, T, NoGuard, <<"Wt.effect">>, <<TimeEventName>>),
     We |-> Tn(W, Empty, NoGuard, <<"We.effect">>, <<ErrorEventName>>),
     Xv |-> Tn(X, V, NoGuard, <<>>, << <<"v">> >>),
     Vt |-> Tn(V, T, NoGuard, <<"Vt.effect">>, <<EveryEventName>>),
     Vp |-> Tn(V, T, NoGuard, <<"Vp.effect">>, << <<"p">> >>),
     Bc |-> Tn(B, T, "g1", <<"Bc.effect">>, << <<"c">> >>),
     Bd |-> Tn(B, S, NoGuard, <<"Bd.effect">>, << <<"d">> >>),
     Tw |-> Tn(T, C, NoGuard, <<"Tw.effect">>, << <<"a", "*">> >>),
     Ta |-> Tn(T, F, "g1", <<>>, << <<"a">> >>),
     C1 |-> Tn(C, B, "g2", <<"C1.effect">>, <<>>),
     C2 |-> Tn(C, T, NoGuard, <<>>, <<>>)]

TransitionNames == DOMAIN Transitions

Guards == {"g1", "g2"}

\* the activities of the states: After() and Every() append their timer to the
\* source of their transition
Activities == (W :> <<"w.after">>) @@ (V :> <<"v.every">>)

\* the behaviors whose operation panics
Panicking == {"Rp.effect", "Vp.effect"}

\* the behaviors whose operation panics in the runs of a faulty instance
PanickingIfFaulty == {"s.entry"}

\* the ids of the events behaviors dispatch: a normal one, then a completion one
NormalId == MaxDispatch + MaxError + 1
CompletionId == MaxDispatch + MaxError + 2

\* the behaviors whose operation calls Dispatch, with the events they dispatch
Dispatching ==
    "Xa.effect1" :> << [name |-> <<"n">>, kind |-> EventKind, id |-> NormalId],
                       [name |-> <<"k">>, kind |-> CompletionEventKind, id |-> CompletionId] >>

\* element.Owner()
Owner(qualifiedName) ==
    IF qualifiedName = Empty \/ qualifiedName = Slash THEN Empty ELSE Dir(qualifiedName)

\* the kinds for which kind.IsKind(k, kind.Vertex) holds
IsVertexKind(k) == k \in {StateKind, FinalStateKind, InitialKind, ChoiceKind}

\* the kinds for which kind.IsKind(k, kind.Pseudostate) holds
IsPseudostateKind(k) == k \in {InitialKind, ChoiceKind}

\* get[*state](model, name): states and final states are *state values
IsStateElement(name) ==
    name \in VertexNames /\ Vertices[name].kind \in {StateKind, FinalStateKind}

(***************************************************************************)
(* 4.B The builder: transition kinds, precomputed paths, transition order. *)
(***************************************************************************)
TransitionKind(t) ==
    LET tr == Transitions[t]
    IN  IF tr.target = tr.source THEN "Self"
        ELSE IF tr.target = Empty THEN "Internal"
        ELSE IF IsAncestor(tr.source, tr.target) THEN "Local"
        ELSE "External"

RECURSIVE EnterLoop(_, _, _)
EnterLoop(entering, lca, enter) ==
    IF entering # lca /\ entering # Slash /\ entering # Empty
    THEN EnterLoop(Dir(entering), lca, <<entering>> \o enter)
    ELSE enter

\* an enter path that holds the target when the target is an ancestor of the
\* source
EnterPathWithTarget(t) ==
    LET tr == Transitions[t]
        enter == EnterLoop(tr.target, LCA(tr.source, tr.target), <<>>)
    IN  IF TransitionKind(t) = "Self" THEN Append(enter, tr.source)
        ELSE IF enter = <<>> /\ tr.target # Empty THEN <<tr.target>>
        ELSE enter

EnterPath(t) ==
    LET tr == Transitions[t]
        enter == EnterLoop(tr.target, LCA(tr.source, tr.target), <<>>)
    IN  IF TransitionKind(t) = "Self" THEN Append(enter, tr.source) ELSE enter

RECURSIVE ExitLoop(_, _, _)
ExitLoop(exiting, lca, exit) ==
    IF exiting # lca /\ exiting # Empty
    THEN IF exiting = Slash THEN Append(exit, exiting)
         ELSE ExitLoop(Dir(exiting), lca, Append(exit, exiting))
    ELSE exit

\* an exit path that runs up to the root whatever the LCA is
ExitPathToRoot(t, qualifiedName) ==
    IF TransitionKind(t) # "Internal" THEN ExitLoop(qualifiedName, Empty, <<>>) ELSE <<>>

ExitPath(t, qualifiedName) ==
    IF TransitionKind(t) # "Internal"
    THEN ExitLoop(qualifiedName, LCA(Transitions[t].source, Transitions[t].target), <<>>)
    ELSE <<>>

\* transition.paths: a function from the qualified names that have an entry
PathsOf(t) ==
    LET tr == Transitions[t]
    IN  IF Vertices[tr.source].kind = InitialKind
        THEN (Dir(tr.source) :> [enter |-> EnterPath(t), exit |-> <<tr.source>>])
        ELSE [q \in {n \in VertexNames : HasPrefix(n, tr.source)} |->
                 [enter |-> EnterPath(t), exit |-> ExitPath(t, q)]]

Paths == [t \in TransitionNames |-> PathsOf(t)]

\* kinds under which no transition is internal: one without a target counts as
\* external
KindsWithoutInternal ==
    [t \in TransitionNames |->
        IF TransitionKind(t) = "Internal" THEN "External" ELSE TransitionKind(t)]

Kinds == [t \in TransitionNames |-> TransitionKind(t)]

\* State(): slices.SortStableFunc puts the transitions with a wildcard last
SortWildcardLast(names) ==
    SelectSeq(names, LAMBDA n : ~hasWildcard(Transitions[n].events))
        \o SelectSeq(names, LAMBDA n : hasWildcard(Transitions[n].events))

\* vertex.transitions after Define(): only State() sorts; the root state is
\* made by Define() itself and pseudostates by Initial() and Choice()
VertexTransitions(name) ==
    IF Vertices[name].kind = StateKind /\ name # Root
    THEN SortWildcardLast(Vertices[name].declared)
    ELSE Vertices[name].declared

TransitionsOf == [n \in VertexNames |-> VertexTransitions(n)]

(***************************************************************************)
(* The instance.                                                           *)
(***************************************************************************)
VARIABLES
    state,      \* sm.state: the qualified name of the active element
    queue,      \* sm.queue: [completionEvents, events]
    locked,     \* sm.processing.internal is held
    signal,     \* sm.processing.signal: the channel stored by the last lock/tryLock
    channels,   \* number of idle-signal channels made so far
    closed,     \* the idle-signal channels that are closed
    guards,     \* what each guard expression returns
    cancelled,  \* sm.context has been cancelled
    registered, \* the instance is in the registry of its context (Keys.Instances)
    faulty,     \* the behaviors of PanickingIfFaulty panic in this run
    act,        \* sm.active: the activity's entry, its channel and its goroutines
    crashed,    \* an unrecovered panic has ended the program
    disp,       \* the Dispatch calls, one slot a call
    loop,       \* the goroutines that run process()
    ctl,        \* the Stop / Restart calls
    group,      \* the instances that share a registry, and the DispatchTo calls
    probe,      \* the arguments a function is applied to on its own, and what it returned
    hist        \* history of what ran, kept for the properties

vars == <<state, queue, locked, signal, channels, closed, guards, cancelled, registered,
          faulty, act, crashed, disp, loop, ctl, group, probe, hist>>

\* the Dispatch calls: the callers' come first, then the recovered panics'
CallerSlots == 1..MaxDispatch
ErrorSlots == (MaxDispatch + 1)..(MaxDispatch + MaxError)
\* the Dispatch calls the goroutines of the After activity make
Timers == 1..MaxTimer
TimerSlot(n) == CompletionId + n
TimerSlots == {TimerSlot(n) : n \in Timers}
TimerOf(i) == i - CompletionId
Slots == CallerSlots \cup ErrorSlots \cup TimerSlots
\* the ids events carry: a Dispatch call's slot, or the id a behavior gives
EventIds == Slots \cup {NormalId, CompletionId}
Controls == 1..MaxControl

\* the goroutines that run process(): Start's, the one a Dispatch call spawns,
\* and a Restart call's
StartLoop == <<"start", 0>>
DispLoop(i) == <<"disp", i>>
CtlLoop(j) == <<"ctl", j>>
Loops == {StartLoop} \cup {DispLoop(i) : i \in Slots} \cup {CtlLoop(j) : j \in Controls}

\* the event names callers dispatch
EventNames == { <<"a">>, <<"b">>, <<"c">>, <<"d">>, <<"e">>, <<"u">>, <<"p">> }
\* the event names callers dispatch when their calls run concurrently
RaceNames == { <<"a">>, <<"u">>, <<"p">> }

NoEvent == [name |-> Empty, kind |-> "", id |-> 0]

(***************************************************************************)
(* 4.C The event queue.                                                    *)
(***************************************************************************)
queueLen(q) == Len(q.events) + Len(q.completionEvents)

\* a pop that serves the normal events before the completion events
popNormalFirst(q) ==
    IF Len(q.events) > 0
    THEN [event |-> q.events[1], ok |-> TRUE, queue |-> [q EXCEPT !.events = Tail(@)]]
    ELSE IF Len(q.completionEvents) > 0
    THEN [event |-> q.completionEvents[Len(q.completionEvents)],
          ok |-> TRUE,
          queue |-> [q EXCEPT !.completionEvents = SubSeq(@, 1, Len(@) - 1)]]
    ELSE [event |-> NoEvent, ok |-> FALSE, queue |-> q]

\* pop(): the event returned (NoEvent when the queue is empty) and the queue left
pop(q) ==
    IF Len(q.completionEvents) > 0
    THEN [event |-> q.completionEvents[Len(q.completionEvents)],
          ok |-> TRUE,
          queue |-> [q EXCEPT !.completionEvents = SubSeq(@, 1, Len(@) - 1)]]
    ELSE IF Len(q.events) > 0
    THEN [event |-> q.events[1], ok |-> TRUE, queue |-> [q EXCEPT !.events = Tail(@)]]
    ELSE [event |-> NoEvent, ok |-> FALSE, queue |-> q]

\* a push that puts a normal event in front of the waiting ones
RECURSIVE pushFront(_, _)
pushFront(q, events) ==
    IF events = <<>> THEN q
    ELSE pushFront(IF Head(events).kind = CompletionEventKind
                   THEN [q EXCEPT !.completionEvents = Append(@, Head(events))]
                   ELSE [q EXCEPT !.events = <<Head(events)>> \o @],
                   Tail(events))

\* push(events...): each event goes to the end of the slice of its kind
RECURSIVE push(_, _)
push(q, events) ==
    IF events = <<>> THEN q
    ELSE push(IF Head(events).kind = CompletionEventKind
              THEN [q EXCEPT !.completionEvents = Append(@, Head(events))]
              ELSE [q EXCEPT !.events = Append(@, Head(events))],
              Tail(events))

(***************************************************************************)
(* 4.D The transition engine.  A "run" is what one call chain has done so  *)
(* far: the behaviors it ran (trace), whether one of them panicked, the    *)
(* element the call returns (ret, Empty for nil) and whether the instance  *)
(* context was cancelled on the way.                                       *)
(***************************************************************************)
NewRun == [trace |-> <<>>, panic |-> FALSE, ret |-> Empty, cancel |-> FALSE, pushed |-> <<>>,
           act |-> act, ended |-> {}, timeouts |-> 0, unacked |-> 0]

Log(op, el, b, by) == [op |-> op, el |-> el, b |-> b, by |-> by]

\* the value of the one element of set: { f(r) : r \in {e} } computes e once,
\* however often f refers to r
The(set) == CHOOSE r \in set : TRUE

\* execute(): run one (non-concurrent) behavior; a panic unwinds the call chain.
\* A behavior that calls Dispatch pushes its events: the mutex is held by the
\* goroutine that runs the behavior, so tryLock fails and nothing else happens
execute(run, op, el, b, by) ==
    The({ IF r.panic THEN r
          ELSE [r EXCEPT !.trace = Append(@, Log(op, el, b, by)),
                         !.panic = (b \in Panicking \/ (faulty /\ b \in PanickingIfFaulty)),
                         !.pushed = IF b \in DOMAIN Dispatching THEN @ \o Dispatching[b]
                                    ELSE @] : r \in {run} })

RECURSIVE executeEach(_, _, _, _, _)
executeEach(run, op, el, names, by) ==
    IF names = <<>> THEN run
    ELSE executeEach(execute(run, op, el, Head(names), by), op, el, Tail(names), by)

\* evaluate(): a nil guard is true
evaluate(guard) == IF guard = NoGuard THEN TRUE ELSE guards[guard]

ActivitiesOf(element) ==
    IF element \in DOMAIN Activities THEN Activities[element] ELSE <<>>

\* the time event goroutine n of activity b dispatches
TimeEvent(b, n) ==
    [name |-> IF b = "v.every" THEN EveryEventName ELSE TimeEventName,
     kind |-> TimeEventKind, id |-> TimerSlot(n)]

\* where goroutine n of the activity is, the call chain's own doings included
timerPc(run, n) ==
    IF n \in run.ended THEN "ended"
    ELSE IF n > act.started THEN "timing"
    ELSE disp[TimerSlot(n)].pc

\* execute() of a concurrent behavior: activate() makes or reuses the entry of
\* sm.active, gives it a new subcontext, and the operation starts on a goroutine
startActivity(run, element, b, by) ==
    The({ IF r.panic THEN r
          ELSE [r EXCEPT !.trace = Append(@, Log("started", element, b, by)),
                         !.act = [@ EXCEPT !.active = TRUE,
                                           !.b = b,
                                           !.started = @ + 1,
                                           !.cur = r.act.started + 1]] : r \in {run} })

RECURSIVE startEach(_, _, _, _)
startEach(run, element, names, by) ==
    IF names = <<>> THEN run
    ELSE startEach(startActivity(run, element, Head(names), by), element, Tail(names), by)

\* whether the goroutine of the activity can reach case <-ctx.Done() while
\* terminate() waits: the goroutine of After always can (the Dispatch it may be
\* in returns at once), the goroutine of Every only from its select or once the
\* channel its Dispatch returned is closed, and that channel is the signal of
\* the mutex the goroutine that runs terminate() holds
reachesDone(b, pc, n) ==
    IF b = "v.every"
    THEN pc = "timing" \/ (pc = "receive" /\ disp[TimerSlot(n)].ret \in closed)
    ELSE TRUE

\* terminate(): cancel the subcontext, then take the token a goroutine of the
\* activity left in the channel, or wait for the running one; a goroutine that
\* acknowledges within the timeout ends right here (the mutex is held, so the
\* Dispatch it may be in pushes its event and fails tryLock); otherwise the
\* timeout dispatches an ErrorEvent
terminate(run, element, b, by) ==
    The({ IF r.panic \/ ~r.act.active THEN r
          ELSE LET cur == r.act.cur
                   pc == timerPc(r, cur)
                   intime == r.act.prompt /\ reachesDone(b, pc, cur)
                   cancelled_ == [r EXCEPT !.trace = Append(@, Log("terminated", element, b, by)),
                                           !.act.done = @ \cup {cur}]
               IN  IF r.act.token > 0
                   THEN [cancelled_ EXCEPT !.act.token = 0,
                                           !.unacked = IF pc # "ended" /\ ~intime
                                                       THEN @ + 1 ELSE @]
                   ELSE IF intime /\ pc # "ended"
                   THEN [cancelled_ EXCEPT !.ended = @ \cup {cur},
                                           !.pushed = IF pc = "push"
                                                      THEN Append(@, TimeEvent(b, cur))
                                                      ELSE @]
                   ELSE [cancelled_ EXCEPT !.timeouts = @ + 1, !.unacked = @ + 1] :
          r \in {run} })

RECURSIVE terminateEach(_, _, _, _)
terminateEach(run, element, names, by) ==
    IF names = <<>> THEN run
    ELSE terminateEach(terminate(run, element, Head(names), by), element, Tail(names), by)

\* an exit that runs nothing
exitNothing(run, element, by) == run

\* exit(): only *state elements have anything to exit; the activities are
\* terminated, then the exit behaviors run
exit(run, element, by) ==
    The({ IF r.panic \/ ~IsStateElement(element) THEN r
          ELSE executeEach(terminateEach(
                               [r EXCEPT !.trace = Append(@, Log("exited", element, "", by))],
                               element, ActivitiesOf(element), by),
                           "exit", element, Vertices[element].exit, by) : r \in {run} })

RECURSIVE exitEach(_, _, _)
exitEach(run, exiting, by) ==
    IF exiting = <<>> THEN run
    ELSE exitEach(exit(run, Head(exiting), by), Tail(exiting), by)

\* a choice that always takes its last transition
chooseLast(names) == IF names = <<>> THEN "" ELSE names[Len(names)]

\* the first transition of a choice whose guard is absent or true ("" if none)
RECURSIVE choose(_)
choose(names) ==
    IF names = <<>> THEN ""
    ELSE IF evaluate(Transitions[Head(names)].guard) THEN Head(names)
    ELSE choose(Tail(names))

RECURSIVE enter(_, _, _, _), transition(_, _, _), enterEach(_, _, _, _)

\* an enter that never follows the initial transition of the state
enterStateShallow(run, element, defaultEntry, by) ==
    The({ IF entered.panic THEN entered ELSE [entered EXCEPT !.ret = element] :
          entered \in {startEach(
                          executeEach(
                              [run EXCEPT !.trace = Append(@, Log("entered", element, "", by))],
                              "entry", element, Vertices[element].entry, by),
                          element, ActivitiesOf(element), by)} })

enterState(run, element, defaultEntry, by) ==
    LET v == Vertices[element]
    IN  The({ IF entered.panic THEN entered
              ELSE IF ~defaultEntry \/ v.initial = Empty THEN [entered EXCEPT !.ret = element]
              ELSE IF v.initial \in VertexNames /\ Len(TransitionsOf[v.initial]) > 0
              THEN transition(entered, element, TransitionsOf[v.initial][1])
              ELSE [entered EXCEPT !.ret = element] :
              entered \in {startEach(
                              executeEach(
                                  [run EXCEPT !.trace = Append(@, Log("entered", element, "", by))],
                                  "entry", element, v.entry, by),
                              element, ActivitiesOf(element), by)} })

\* an enter that stays on the choice pseudostate
enterChoiceStay(run, element, by) == [run EXCEPT !.ret = element]

enterChoice(run, element, by) ==
    LET t == choose(TransitionsOf[element])
    IN  IF t = "" THEN [run EXCEPT !.ret = Empty]
        ELSE transition(run, element, t)

enterFinal(run, element, by) ==
    [run EXCEPT !.ret = element,
                !.trace = Append(@, Log("entered", element, "", by)),
                !.cancel = @ \/ Owner(element) = Slash]

enter(run, element, defaultEntry, by) ==
    The({ IF r.panic THEN r
          ELSE IF Vertices[element].kind = StateKind THEN enterState(r, element, defaultEntry, by)
          ELSE IF Vertices[element].kind = ChoiceKind THEN enterChoice(r, element, by)
          ELSE IF Vertices[element].kind = FinalStateKind THEN enterFinal(r, element, by)
          ELSE [r EXCEPT !.ret = Empty] : r \in {run} })

\* the loop over path.enter, from index i on
enterEach(run, t, entering, i) ==
    The({ IF r.panic THEN r
          ELSE IF i > Len(entering)
          THEN [r EXCEPT !.ret = IF Transitions[t].target \in VertexNames
                                  THEN Transitions[t].target ELSE Empty]
          ELSE IF entering[i] \notin VertexNames THEN [r EXCEPT !.ret = Empty]
          ELSE IF entering[i] = Transitions[t].target
          THEN enter(r, entering[i], TRUE, t)
          ELSE enterEach(enter(r, entering[i], FALSE, t), t, entering, i + 1) : r \in {run} })

\* a transition that runs its effects before it exits the states
effectAndExit(run, path, t) ==
    exitEach(executeEach(run, "effect", Transitions[t].source, Transitions[t].effect, t),
             path.exit, t)

\* the first half of transition(): the exit loop, then the effects
exitAndEffect(run, path, t) ==
    executeEach(exitEach(run, path.exit, t), "effect", Transitions[t].source,
                Transitions[t].effect, t)

transition(run, current, t) ==
    The({ IF r.panic THEN r
          ELSE IF current \notin DOMAIN Paths[t] THEN [r EXCEPT !.ret = Empty]
          ELSE LET path == Paths[t][current]
                   last == IF path.exit = <<>> THEN current ELSE path.exit[Len(path.exit)]
               IN  The({ IF effected.panic THEN effected
                         ELSE IF Kinds[t] = "Internal" THEN [effected EXCEPT !.ret = last]
                         ELSE enterEach(effected, t, path.enter, 1) :
                         effected \in {exitAndEffect(r, path, t)} }) : r \in {run} })

\* enabled(): the first transition of source, in order, one of whose event
\* patterns matches the name and whose guard (if any) is true; "" for nil
\* an enabled() that takes the first transition whose pattern matches, whatever
\* its guard returns
RECURSIVE enabledUnguarded(_, _)
enabledUnguarded(names, event) ==
    IF names = <<>> THEN ""
    ELSE IF \E k \in 1..Len(Transitions[Head(names)].events) :
                Match(event.name, <<Transitions[Head(names)].events[k]>>)
    THEN Head(names)
    ELSE enabledUnguarded(Tail(names), event)

RECURSIVE enabledFrom(_, _)
enabledFrom(names, event) ==
    IF names = <<>> THEN ""
    ELSE LET tr == Transitions[Head(names)]
         IN  IF \E k \in 1..Len(tr.events) :
                    Match(event.name, <<tr.events[k]>>) /\ evaluate(tr.guard)
             THEN Head(names)
             ELSE enabledFrom(Tail(names), event)

enabled(source, event) == enabledFrom(TransitionsOf[source], event)

\* One iteration of process() for a popped event: the walk from the active state
\* towards the root.  outcome: "fired" (a transition ran and returned a state),
\* "nil" (it returned nil), "panic", "deferred", or "dropped".
Outcome(o, ts, run) == [outcome |-> o, fired |-> ts, run |-> run]

\* a walk that looks at the deferral patterns of a state before its transitions
RECURSIVE walkDeferFirst(_, _, _)
walkDeferFirst(qualifiedName, currentState, event) ==
    IF qualifiedName = Empty \/ ~IsStateElement(qualifiedName)
    THEN Outcome("dropped", <<>>, NewRun)
    ELSE IF Len(Vertices[qualifiedName].deferred) > 0
            /\ Match(event.name, Vertices[qualifiedName].deferred)
    THEN Outcome("deferred", <<>>, NewRun)
    ELSE The({ IF t = "" THEN walkDeferFirst(Owner(qualifiedName), currentState, event)
               ELSE The({ Outcome(IF run.panic THEN "panic"
                                  ELSE IF run.ret = Empty THEN "nil" ELSE "fired",
                                  <<t>>, run) :
                          run \in {transition(NewRun, currentState, t)} }) :
               t \in {enabled(qualifiedName, event)} })

\* a walk that goes on to the ancestors after a transition has fired
RECURSIVE walkOn(_, _, _)
walkOn(qualifiedName, currentState, event) ==
    IF qualifiedName = Empty \/ ~IsStateElement(qualifiedName)
    THEN Outcome("dropped", <<>>, NewRun)
    ELSE The({ IF t = "" THEN above
               ELSE The({ Outcome(IF run.panic THEN "panic"
                                  ELSE IF run.ret = Empty THEN "nil" ELSE "fired",
                                  <<t>> \o above.fired, run) :
                          run \in {transition(NewRun, currentState, t)} }) :
               t \in {enabled(qualifiedName, event)},
               above \in {walkOn(Owner(qualifiedName), currentState, event)} })

RECURSIVE walk(_, _, _)
walk(qualifiedName, currentState, event) ==
    IF qualifiedName = Empty \/ ~IsStateElement(qualifiedName)
    THEN Outcome("dropped", <<>>, NewRun)
    ELSE LET deferred == Vertices[qualifiedName].deferred
         IN  The({ IF t # ""
                   THEN The({ Outcome(IF run.panic THEN "panic"
                                      ELSE IF run.ret = Empty THEN "nil" ELSE "fired",
                                      <<t>>, run) :
                              run \in {transition(NewRun, currentState, t)} })
                   ELSE IF Len(deferred) > 0 /\ Match(event.name, deferred)
                   THEN Outcome("deferred", <<>>, NewRun)
                   ELSE walk(Owner(qualifiedName), currentState, event) :
                   t \in {enabled(qualifiedName, event)} })

(***************************************************************************)
(* 4.E The instance runtime.                                               *)
(***************************************************************************)
\* the instances that share the registry of a context (Keys.Instances): the
\* first is started in a plain context, the others in the first one's Context()
Instances == 1..MaxInstances
ToCalls == 1..MaxTo

\* Config.ID of the instances
InstanceId(k) == IF k = 1 THEN <<"s", "m", "1">> ELSE <<"s", "m", "2">>

\* the id patterns DispatchTo is called with; none is DispatchAll
PatternLists ==
    { <<>>,
      << <<"s", "m", "1">> >>,
      << <<"s", "m", "*">> >>,
      << <<"x">>, <<"s", "m", "2">> >> }

\* an instance that has been started and is idle: Start's lock stored channel 1
\* and the unlock of its process loop closed it
IdleInstance ==
    [registered |-> TRUE, queue |-> <<>>, locked |-> FALSE, signal |-> 1, made |-> 1,
     closed |-> {1}, pc |-> "none", done |-> {}]

\* a DispatchTo call that has not been made
NoTo ==
    [pc |-> "none", patterns |-> <<>>, left |-> {}, pushed |-> 0, seen |-> {},
     targeted |-> {}, signals |-> <<>>, cut |-> FALSE]

GroupIdle ==
    [instances |-> [k \in Instances |-> IdleInstance],
     calls |-> [c \in ToCalls |-> NoTo],
     cancelled |-> FALSE]

\* history of the entries and exits of a run: the states entered and not yet
\* exited, whether entries and exits have alternated for every state, and
\* whether a behavior has panicked (the record is kept no further then)
NoChain == [open |-> {}, ok |-> TRUE, panicked |-> FALSE]

RECURSIVE TrackLoop(_, _, _)
TrackLoop(chain, trace, k) ==
    IF k > Len(trace) THEN chain
    ELSE TrackLoop(
             IF trace[k].op = "entered"
             THEN [chain EXCEPT !.ok = @ /\ trace[k].el \notin chain.open,
                                !.open = @ \cup {trace[k].el}]
             ELSE IF trace[k].op = "exited"
             THEN [chain EXCEPT !.ok = @ /\ trace[k].el \in chain.open,
                                !.open = @ \ {trace[k].el}]
             ELSE chain,
             trace, k + 1)

Track(chain, run) ==
    IF chain.panicked \/ run.panic THEN [NoChain EXCEPT !.panicked = TRUE]
    ELSE TrackLoop(chain, run.trace, 1)

\* no function is applied on its own
NoProbe == [fn |-> "none"]

\* ctx: the context given to the call is the one the callers cancel, or derives from it
IdleSlot == [pc |-> "idle", ev |-> NoEvent, got |-> FALSE, ret |-> 0, ctx |-> FALSE]
\* ctx: the same for the context process() runs with
NoLoop == [pc |-> "none", deferred |-> <<>>, ctx |-> FALSE]
NoCtl == [pc |-> "none", op |-> ""]
NoStep == [id |-> 0, name |-> Empty, kind |-> "", from |-> Empty, to |-> Empty, outcome |-> "",
           fired |-> <<>>, trace |-> <<>>, pending |-> 0, requeued |-> 0, remaining |-> 0,
           loop |-> <<"", 0>>, started |-> <<>>, cur |-> 0, timeouts |-> 0, unacked |-> 0]

\* sm.active before any activity has run; prompt: the goroutines of the activity
\* acknowledge a cancellation within ActivityTimeout; ctx: the context the
\* callers give to Dispatch ("none": one that is never cancelled, "live", "done");
\* derived: the subcontext activate() made last derives from that context;
\* b: the activity that was started last
NoActivity == [active |-> FALSE, cur |-> 0, started |-> 0, done |-> {}, token |-> 0,
               prompt |-> TRUE, ctx |-> "none", derived |-> FALSE, b |-> ""]

\* sm.active after a call chain that ran with the context ctx: activate() has
\* derived the subcontext of every activity the chain started from it
activate(after, ctx) ==
    IF after.started > act.started THEN [after EXCEPT !.derived = ctx] ELSE after

Init ==
    /\ act = NoActivity
    /\ group = GroupIdle
    /\ probe = NoProbe
    /\ state = Root
    /\ queue = [completionEvents |-> <<>>, events |-> <<>>]
    /\ locked = TRUE
    /\ signal = 1
    /\ channels = 1
    /\ closed = {}
    /\ guards \in [Guards -> BOOLEAN]
    /\ cancelled = FALSE
    /\ registered = TRUE
    /\ faulty \in BOOLEAN
    /\ crashed = FALSE
    /\ disp = [i \in Slots |-> IdleSlot]
    /\ loop = [g \in Loops |-> IF g = StartLoop THEN [NoLoop EXCEPT !.pc = "enter"] ELSE NoLoop]
    /\ ctl = [j \in Controls |-> NoCtl]
    /\ hist = [popped |-> [i \in EventIds |-> 0],
               fired |-> [i \in EventIds |-> 0],
               last |-> [i \in EventIds |-> ""],
               late |-> {},
               start |-> <<>>,
               first |-> [to |-> Empty, trace |-> <<>>],
               again |-> [to |-> Empty, trace |-> <<>>],
               stop |-> [from |-> Empty, trace |-> <<>>, outcome |-> ""],
               stale |-> 0,
               chain |-> NoChain,
               step |-> NoStep]

\* a tryLock that succeeds while the mutex is held
tryLockAlways == TRUE

\* mutex.tryLock(): whether internal.TryLock() succeeds
tryLock == ~locked

\* the lowest of the slots no Dispatch call has taken yet (0: none left)
FreeSlot(slots) ==
    IF \E i \in slots : disp[i].pc = "idle"
    THEN CHOOSE i \in slots : disp[i].pc = "idle" /\ \A k \in slots : k < i => disp[k].pc # "idle"
    ELSE 0

\* a walk that ends after the active element
ownerChainOnce(qualifiedName) == <<qualifiedName>>

\* the chain the exit walk of stop() follows: the active element, its owner, ...
RECURSIVE ownerChain(_)
ownerChain(qualifiedName) ==
    IF qualifiedName = Empty \/ qualifiedName \notin VertexNames THEN <<>>
    ELSE <<qualifiedName>> \o ownerChain(Owner(qualifiedName))

ErrorEvent(i) == [name |-> ErrorEventName, kind |-> ErrorEventKind, id |-> i]

\* the ErrorEvents a call chain has to dispatch: one for each terminate() that
\* timed out, one for a recovered panic
errorsOf(run, recovered) == run.timeouts + (IF recovered THEN 1 ELSE 0)

\* the goroutines cannot be started beyond the slots there are
canSpawn(run, recovered) ==
    /\ errorsOf(run, recovered) <= Cardinality({i \in ErrorSlots : disp[i].pc = "idle"})
    /\ run.act.started <= MaxTimer

\* the Dispatch calls and activity goroutines after a call chain: the ones it
\* started (go sm.Dispatch(ctx, ErrorEvent...), go func of execute()) and the
\* activity goroutines that acknowledged its terminate()
spawn(run, recovered, ctx) ==
    LET free == {i \in ErrorSlots : disp[i].pc = "idle"}
        taken == {i \in free : Cardinality({k \in free : k < i}) < errorsOf(run, recovered)}
    IN  [i \in Slots |->
            IF i \in taken THEN [IdleSlot EXCEPT !.pc = "push", !.ev = ErrorEvent(i), !.ctx = ctx]
            ELSE IF i \in TimerSlots /\ TimerOf(i) \in run.ended
            THEN [IdleSlot EXCEPT !.pc = "ended", !.ev = TimeEvent(run.act.b, TimerOf(i))]
            ELSE IF i \in TimerSlots /\ TimerOf(i) > act.started
                                     /\ TimerOf(i) <= run.act.started
            THEN [IdleSlot EXCEPT !.pc = "timing", !.ev = TimeEvent(run.act.b, TimerOf(i))]
            ELSE disp[i]]

\* Start() and restart(): sm.behavior.operation enters the root state by default
\* entry, stores the state it returns and goes on into process()
LoopEnter(g) ==
    /\ ~crashed
    /\ loop[g].pc = "enter"
    /\ \E run \in {enter(NewRun, Root, TRUE, "start")} :
           /\ canSpawn(run, FALSE)
           /\ disp' = spawn(run, FALSE, loop[g].ctx)
           /\ act' = activate(run.act, loop[g].ctx)
           /\ state' = IF run.panic \/ run.ret = Empty THEN state ELSE run.ret
           /\ loop' = [loop EXCEPT ![g].pc = IF run.panic THEN "panicked" ELSE "run"]
           /\ cancelled' = (cancelled \/ run.cancel)
           /\ queue' = push(queue, run.pushed)
           /\ hist' = [hist EXCEPT !.start = run.trace,
                                    !.chain = Track(@, run),
                                    !.first = IF g = StartLoop
                                              THEN [to |-> state', trace |-> run.trace] ELSE @,
                                    !.again = IF g # StartLoop
                                              THEN [to |-> state', trace |-> run.trace] ELSE @,
                                    !.step = [NoStep EXCEPT !.name = InitialEventName,
                                                 !.from = state, !.to = state',
                                                 !.outcome = "start", !.trace = run.trace,
                                                 !.loop = g]]
    /\ UNCHANGED <<probe, group, faulty, registered, locked, signal, channels, closed, guards, crashed, ctl>>

\* the channel a Stop call returned is closed
Stopped == \E j \in Controls : ctl[j].op = "stop" /\ ctl[j].pc = "stopped"

\* hsm.Dispatch() up to and including queue.push(event), for a caller's event:
\* sm.state is never nil once Start has stored the model's root in it
DispatchPush(i, name) ==
    /\ ~crashed
    /\ i = FreeSlot(CallerSlots)
    /\ LET event == [name |-> name, kind |-> EventKind, id |-> i]
       IN  /\ queue' = push(queue, <<event>>)
           /\ disp' = [disp EXCEPT ![i] = [IdleSlot EXCEPT !.pc = "trylock", !.ev = event,
                                                       !.ctx = act.ctx # "none"]]
    /\ hist' = [hist EXCEPT !.late = IF Stopped THEN @ \cup {i} ELSE @]
    /\ UNCHANGED <<probe, group, act, faulty, registered, state, locked, signal, channels, closed, guards, cancelled, crashed,
                   loop, ctl>>

\* the same for the ErrorEvent a recovered panic dispatches from its own goroutine
DispatchErrorPush(i) ==
    /\ ~crashed
    /\ disp[i].pc = "push"
    /\ queue' = push(queue, <<disp[i].ev>>)
    /\ disp' = [disp EXCEPT ![i].pc = "trylock"]
    /\ UNCHANGED <<probe, group, act, faulty, registered, state, locked, signal, channels, closed, guards, cancelled, crashed,
                   loop, ctl, hist>>

\* if sm.processing.tryLock() { go sm.process(ctx) }
DispatchTryLock(i) ==
    /\ ~crashed
    /\ disp[i].pc = "trylock"
    /\ IF tryLock
       THEN /\ locked' = TRUE
            /\ channels' = channels + 1
            /\ signal' = channels + 1
            /\ loop' = [loop EXCEPT ![DispLoop(i)] = [NoLoop EXCEPT !.pc = "run", !.ctx = disp[i].ctx]]
            /\ disp' = [disp EXCEPT ![i].pc = "wait", ![i].got = TRUE]
       ELSE /\ disp' = [disp EXCEPT ![i].pc = "wait"]
            /\ UNCHANGED <<probe, group, locked, channels, signal, loop>>
    /\ UNCHANGED <<probe, group, act, faulty, registered, state, queue, closed, guards, cancelled, crashed, ctl, hist>>

\* return sm.processing.wait(); the goroutine of Every goes on to receive from
\* the channel
DispatchWait(i) ==
    /\ ~crashed
    /\ disp[i].pc = "wait"
    /\ disp' = [disp EXCEPT ![i].pc = IF disp[i].ev.name = EveryEventName THEN "receive"
                                       ELSE "done",
                             ![i].ret = signal]
    /\ UNCHANGED <<probe, group, act, faulty, registered, state, queue, locked, signal, channels, closed, guards, cancelled,
                   crashed, loop, ctl, hist>>

\* a loop that pushes its deferred events back after every step
requeueAlways(outcome, deferred) == deferred

\* process(): the deferred events the loop pushes back right after a step:
\* all of them once the step has fired a transition
requeue(outcome, deferred) ==
    IF outcome = "fired" /\ Len(deferred) > 0 THEN deferred ELSE <<>>

\* process(): one pop and, if it returned an event, that event's RTC step; the
\* events the step's behaviors dispatched are in the queue before the loop goes on
LoopRun(g) ==
    /\ ~crashed
    /\ loop[g].pc = "run"
    /\ \E p \in {pop(queue)}, deferred \in {loop[g].deferred} :
       \E o \in {walk(state, state, p.event)} :
       \E left \in {push(p.queue, o.run.pushed)}, back \in {requeue(o.outcome, deferred)} :
           IF ~p.ok
           THEN /\ loop' = [loop EXCEPT ![g].pc = "requeue"]
                /\ UNCHANGED <<probe, group, state, queue, cancelled, disp, act, hist>>
           ELSE /\ canSpawn(o.run, o.outcome = "panic")
                /\ act' = activate(o.run.act, loop[g].ctx)
                /\ state' = IF o.outcome = "fired" THEN o.run.ret ELSE state
                /\ queue' = push(left, back)
                /\ loop' = [loop EXCEPT
                       ![g].pc = IF o.outcome = "panic" THEN "unlock" ELSE "run",
                       ![g].deferred = IF o.outcome = "panic" THEN <<>>
                                       ELSE IF o.outcome = "deferred"
                                       THEN Append(IF Len(back) > 0 THEN <<>> ELSE deferred,
                                                   p.event)
                                       ELSE IF Len(back) > 0 THEN <<>>
                                       ELSE deferred]
                /\ cancelled' = (cancelled \/ o.run.cancel)
                /\ disp' = spawn(o.run, o.outcome = "panic", loop[g].ctx)
                /\ hist' = [hist EXCEPT
                       !.popped[p.event.id] = IF @ < MaxPopped THEN @ + 1 ELSE @,
                       !.fired[p.event.id] = @ + Len(o.fired),
                       !.last[p.event.id] = o.outcome,
                       !.chain = Track(@, o.run),
                       !.start = <<>>,
                       !.step = [id |-> p.event.id, name |-> p.event.name,
                                 kind |-> p.event.kind, from |-> state,
                                 to |-> state', outcome |-> o.outcome, fired |-> o.fired,
                                 trace |-> o.run.trace,
                                 pending |-> Len(p.queue.completionEvents),
                                 requeued |-> Len(back), remaining |-> queueLen(left),
                                 loop |-> g, started |-> <<>>,
                                 cur |-> act.cur, timeouts |-> o.run.timeouts,
                                 unacked |-> o.run.unacked]]
    /\ UNCHANGED <<probe, group, faulty, registered, locked, signal, channels, closed, guards, crashed, ctl>>

\* process(): sm.queue.push(deferred...) after the loop
LoopRequeue(g) ==
    /\ ~crashed
    /\ loop[g].pc = "requeue"
    /\ queue' = push(queue, loop[g].deferred)
    /\ loop' = [loop EXCEPT ![g].pc = "unlock", ![g].deferred = <<>>]
    /\ UNCHANGED <<probe, group, act, faulty, registered, state, locked, signal, channels, closed, guards, cancelled, crashed,
                   disp, ctl, hist>>

\* mutex.unlock(), first half: mutex.internal.Unlock()
LoopUnlock(g) ==
    /\ ~crashed
    /\ loop[g].pc = "unlock"
    /\ locked' = FALSE
    /\ loop' = [loop EXCEPT ![g].pc = "close"]
    /\ UNCHANGED <<probe, group, act, faulty, registered, state, queue, signal, channels, closed, guards, cancelled, crashed,
                   disp, ctl, hist>>

\* mutex.unlock(), second half: close(mutex.signal.Load()); closing a closed
\* channel panics, and nothing recovers a panic raised in process()'s deferred call
LoopClose(g) ==
    /\ ~crashed
    /\ loop[g].pc = "close"
    /\ crashed' = (signal \in closed)
    /\ closed' = closed \cup {signal}
    /\ loop' = [loop EXCEPT ![g] = NoLoop]
    /\ UNCHANGED <<probe, group, act, faulty, registered, state, queue, locked, signal, channels, guards, cancelled, disp, ctl, hist>>

\* Stop(ctx, sm) / Restart(ctx, sm): the call is made
CtlCall(j, op) ==
    /\ ~crashed
    /\ ctl[j].pc = "none"
    /\ \A k \in 1..(j - 1) : ctl[k].pc # "none"
    /\ ctl' = [ctl EXCEPT ![j] = [pc |-> "lock", op |-> op]]
    /\ UNCHANGED <<probe, group, act, faulty, registered, state, queue, locked, signal, channels, closed, guards, cancelled,
                   crashed, disp, loop, hist>>

\* stop(): sm.processing.lock() in the goroutine stop() starts
CtlLock(j) ==
    /\ ~crashed
    /\ ctl[j].pc = "lock"
    /\ ~locked
    /\ locked' = TRUE
    /\ channels' = channels + 1
    /\ signal' = channels + 1
    /\ ctl' = [ctl EXCEPT ![j].pc = "walk"]
    /\ UNCHANGED <<probe, group, act, faulty, registered, state, queue, closed, guards, cancelled, crashed, disp, loop, hist>>

\* stop(): the exit walk; clear(sm.active) drops the entries of the activities.  ctx is found done after k states have been exited
\* (the goroutine then returns, closing its signal and keeping the mutex), or
\* never (k = the length of the chain): the walk ends above the root and goes on
\* to cancel the instance context.
CtlWalk(j, k) ==
    /\ ~crashed
    /\ ctl[j].pc = "walk"
    /\ k \in 0..Len(ownerChain(state))
    /\ \E chain \in {ownerChain(state)} :
       \E run \in {exitEach(NewRun, SubSeq(chain, 1, k), "stop")} :
           /\ canSpawn(run, FALSE)
           /\ disp' = spawn(run, FALSE, FALSE)
           /\ act' = IF k < Len(chain) THEN run.act
                     ELSE [run.act EXCEPT !.active = FALSE, !.token = 0]
           /\ state' = IF k < Len(chain) THEN chain[k + 1] ELSE chain[Len(chain)]
           /\ cancelled' = (cancelled \/ k = Len(chain))
           /\ registered' = (registered /\ k < Len(chain))
           /\ ctl' = [ctl EXCEPT ![j].pc = IF k < Len(chain) THEN "stopped" ELSE "unlock"]
           /\ queue' = push(queue, run.pushed)
           /\ hist' = [hist EXCEPT !.stop = [from |-> state, trace |-> run.trace,
                                              outcome |-> IF k < Len(chain) THEN "aborted"
                                                          ELSE "stop"],
                                    !.chain = Track(@, run),
                                    !.start = <<>>,
                                    !.step = [NoStep EXCEPT !.name = FinalEventName,
                                                 !.started = hist.start,
                                                 !.from = state, !.to = state',
                                                 !.outcome = IF k < Len(chain) THEN "aborted"
                                                             ELSE "stop",
                                                 !.trace = run.trace]]
    /\ UNCHANGED <<probe, group, faulty, locked, signal, channels, closed, guards, crashed, loop>>

\* stop(): sm.processing.unlock(), first half
CtlUnlock(j) ==
    /\ ~crashed
    /\ ctl[j].pc = "unlock"
    /\ locked' = FALSE
    /\ ctl' = [ctl EXCEPT ![j].pc = "close"]
    /\ UNCHANGED <<probe, group, act, faulty, registered, state, queue, signal, channels, closed, guards, cancelled, crashed,
                   disp, loop, hist>>

\* stop(): sm.processing.unlock(), second half; stop()'s deferred call recovers
\* the panic of closing a closed channel, and closes the channel Stop returned
CtlClose(j) ==
    /\ ~crashed
    /\ ctl[j].pc = "close"
    /\ closed' = closed \cup {signal}
    /\ ctl' = [ctl EXCEPT ![j].pc = "stopped"]
    /\ UNCHANGED <<probe, group, act, faulty, registered, state, queue, locked, signal, channels, guards, cancelled, crashed,
                   disp, loop, hist>>

\* restart(): after <-sm.stop(ctx), sm.processing.lock(), a new context, start()
CtlRelock(j) ==
    /\ ~crashed
    /\ ctl[j].pc = "stopped"
    /\ ctl[j].op = "restart"
    /\ ~locked
    /\ locked' = TRUE
    /\ channels' = channels + 1
    /\ signal' = channels + 1
    /\ cancelled' = FALSE
    /\ registered' = TRUE
    /\ ctl' = [ctl EXCEPT ![j].pc = "restarted"]
    /\ loop' = [loop EXCEPT ![CtlLoop(j)] = [NoLoop EXCEPT !.pc = "enter"]]
    /\ hist' = [hist EXCEPT !.stale = queueLen(queue)]
    /\ UNCHANGED <<probe, group, act, faulty, state, queue, closed, guards, crashed, disp>>

\* no call is under way and no goroutine of the instance is running
Quiescent ==
    /\ \A i \in Slots : disp[i].pc \in {"idle", "done"}
    /\ \A g \in Loops : loop[g].pc \in {"none", "panicked"}
    /\ \A j \in Controls : ctl[j].pc \in {"none", "stopped", "restarted"}
    /\ \A j \in Controls : ctl[j].pc = "stopped" => ctl[j].op = "stop"

\* the steps the instance's own goroutines take once a call is made
Run ==
    \/ \E g \in Loops : LoopEnter(g)
    \/ \E i \in Slots : DispatchErrorPush(i)
    \/ \E i \in Slots : DispatchTryLock(i)
    \/ \E i \in Slots : DispatchWait(i)
    \/ \E g \in Loops : LoopRun(g)
    \/ \E g \in Loops : LoopRequeue(g)
    \/ \E g \in Loops : LoopUnlock(g)
    \/ \E g \in Loops : LoopClose(g)
    \/ \E j \in Controls : CtlLock(j)
    \/ \E j \in Controls, k \in 0..4 : CtlWalk(j, k)
    \/ \E j \in Controls : CtlUnlock(j)
    \/ \E j \in Controls : CtlClose(j)
    \/ \E j \in Controls : CtlRelock(j)

\* the calls made so far
Calls ==
    Cardinality({i \in CallerSlots : disp[i].pc # "idle"})
        + Cardinality({j \in Controls : ctl[j].pc # "none"})

\* callers on any number of goroutines: up to MaxCalls calls that overlap each
\* other and the instance's own steps in every way
Next ==
    \/ \E i \in Slots, name \in RaceNames : Calls < MaxCalls /\ DispatchPush(i, name)
    \/ \E j \in Controls, op \in {"stop", "restart"} : Calls < MaxCalls /\ CtlCall(j, op)
    \/ Run

\* the concurrent runs are explored with every guard true and no faulty behavior
RaceInit == Init /\ guards = [g \in Guards |-> TRUE] /\ ~faulty

Spec == RaceInit /\ [][Next]_vars

\* one caller that waits for the instance to be idle before its next call
EngineNext ==
    \/ \E i \in Slots, name \in EventNames : Quiescent /\ DispatchPush(i, name)
    \/ \E j \in Controls, op \in {"stop", "restart"} : Quiescent /\ CtlCall(j, op)
    \/ Run

EngineSpec == Init /\ [][EngineNext]_vars

(***************************************************************************)
(* 4.F The After activity: timer.C fires, or ctx.Done() is seen.           *)
(***************************************************************************)
\* case <-timer.C: hsm.Dispatch(hsm.Context(), event) is called.  ctx.Done() is
\* read from the subcontext field of the entry when the select is reached: a
\* goroutine that reaches it after a later activate() waits on the new subcontext
TimerFire(n) ==
    /\ ~crashed
    /\ disp[TimerSlot(n)].pc = "timing"
    /\ n \notin act.done \/ act.cur \notin act.done
    /\ disp' = [disp EXCEPT ![TimerSlot(n)].pc = "push"]
    /\ UNCHANGED <<probe, group, state, queue, locked, signal, channels, closed, guards, cancelled,
                   registered, faulty, act, crashed, loop, ctl, hist>>

\* the subcontext of the entry is done: cancel() was called on it, or the
\* context it derives from is done
subcontextDone(n) ==
    \/ n \in act.done
    \/ act.derived /\ act.ctx = "done"

\* case <-ctx.Done(): the operation returns
TimerCancelled(n) ==
    /\ ~crashed
    /\ disp[TimerSlot(n)].pc = "timing"
    /\ subcontextDone(n)
    /\ disp' = [disp EXCEPT ![TimerSlot(n)].pc = "done"]
    /\ UNCHANGED <<probe, group, state, queue, locked, signal, channels, closed, guards, cancelled,
                   registered, faulty, act, crashed, loop, ctl, hist>>

\* execute(): ctx.channel <- struct{}{} once the operation has returned; the
\* channel holds one token, a second send blocks
TimerAck(n) ==
    /\ ~crashed
    /\ disp[TimerSlot(n)].pc = "done"
    /\ act.token = 0
    /\ disp' = [disp EXCEPT ![TimerSlot(n)].pc = "ended"]
    /\ act' = [act EXCEPT !.token = 1]
    /\ UNCHANGED <<probe, group, state, queue, locked, signal, channels, closed, guards, cancelled,
                   registered, faulty, crashed, loop, ctl, hist>>

\* the event names callers dispatch to the instance with the After transition
TimerNames == { <<"w">> }

\* no caller's Dispatch is under way and no process loop is running
CallersQuiet ==
    /\ \A i \in CallerSlots : disp[i].pc \in {"idle", "done"}
    /\ \A g \in Loops : loop[g].pc = "none"

\* one caller that waits for the process loop to end before its next call, and
\* the goroutines of the activity, which overlap it in every way
TimerNext ==
    \/ \E i \in Slots, name \in TimerNames : CallersQuiet /\ DispatchPush(i, name)
    \/ \E g \in Loops : LoopEnter(g)
    \/ \E i \in Slots : DispatchErrorPush(i)
    \/ \E i \in Slots : DispatchTryLock(i)
    \/ \E i \in Slots : DispatchWait(i)
    \/ \E g \in Loops : LoopRun(g)
    \/ \E g \in Loops : LoopRequeue(g)
    \/ \E g \in Loops : LoopUnlock(g)
    \/ \E g \in Loops : LoopClose(g)
    \/ \E n \in Timers : TimerFire(n)
    \/ \E n \in Timers : TimerCancelled(n)
    \/ \E n \in Timers : TimerAck(n)

\* the activity's goroutines acknowledge in time in some runs, late in others
TimerInit ==
    /\ group = GroupIdle
    /\ probe = NoProbe
    /\ act \in {[NoActivity EXCEPT !.prompt = b] : b \in BOOLEAN}
    /\ state = Root
    /\ queue = [completionEvents |-> <<>>, events |-> <<>>]
    /\ locked = TRUE
    /\ signal = 1
    /\ channels = 1
    /\ closed = {}
    /\ guards = [g \in Guards |-> TRUE]
    /\ cancelled = FALSE
    /\ registered = TRUE
    /\ faulty = FALSE
    /\ crashed = FALSE
    /\ disp = [i \in Slots |-> IdleSlot]
    /\ loop = [g \in Loops |-> IF g = StartLoop THEN [NoLoop EXCEPT !.pc = "enter"] ELSE NoLoop]
    /\ ctl = [j \in Controls |-> NoCtl]
    /\ hist = [popped |-> [i \in EventIds |-> 0],
               fired |-> [i \in EventIds |-> 0],
               last |-> [i \in EventIds |-> ""],
               late |-> {},
               start |-> <<>>,
               first |-> [to |-> Empty, trace |-> <<>>],
               again |-> [to |-> Empty, trace |-> <<>>],
               stop |-> [from |-> Empty, trace |-> <<>>, outcome |-> ""],
               stale |-> 0,
               chain |-> NoChain,
               step |-> NoStep]

TimerSpec == TimerInit /\ [][TimerNext]_vars

(***************************************************************************)
(* 4.G The queue on its own: any sequence of pushes and pops.              *)
(***************************************************************************)
\* the kinds of the events pushed
QueueKinds == {EventKind, CompletionEventKind, ErrorEventKind}

\* the argument lists of a push call: one event or two
QueueBatches == {<<k>> : k \in QueueKinds} \cup {<<k, l>> : k, l \in QueueKinds}

QueueInit ==
    /\ act = NoActivity
    /\ group = GroupIdle
    /\ probe = NoProbe
    /\ queue = [completionEvents |-> <<>>, events |-> <<>>]
    /\ hist = [pushed |-> <<>>, got |-> <<>>, before |-> <<>>, op |-> "",
               ret |-> [event |-> NoEvent, ok |-> FALSE]]
    /\ state = Root
    /\ locked = FALSE
    /\ signal = 1
    /\ channels = 1
    /\ closed = {}
    /\ guards = [g \in Guards |-> TRUE]
    /\ cancelled = FALSE
    /\ registered = FALSE
    /\ faulty = FALSE
    /\ crashed = FALSE
    /\ disp = [i \in Slots |-> IdleSlot]
    /\ loop = [g \in Loops |-> NoLoop]
    /\ ctl = [j \in Controls |-> NoCtl]

\* queue.push(events...) with events not pushed before
QueuePush(batch) ==
    /\ Len(hist.pushed) + Len(batch) <= MaxPush
    /\ \E events \in {[n \in 1..Len(batch) |->
                          [name |-> <<"q">>, kind |-> batch[n], id |-> Len(hist.pushed) + n]]} :
           /\ queue' = push(queue, events)
           /\ hist' = [hist EXCEPT !.pushed = @ \o events, !.op = "push"]
    /\ UNCHANGED <<probe, group, act, faulty, registered, state, locked, signal, channels, closed, guards, cancelled, crashed,
                   disp, loop, ctl>>

\* queue.pop()
QueuePop ==
    /\ \E p \in {pop(queue)} :
           /\ queue' = p.queue
           /\ hist' = [hist EXCEPT !.got = IF p.ok THEN Append(@, p.event) ELSE @,
                                    !.before = hist.got,
                                    !.op = "pop",
                                    !.ret = [event |-> p.event, ok |-> p.ok]]
    /\ UNCHANGED <<probe, group, act, faulty, registered, state, locked, signal, channels, closed, guards, cancelled, crashed,
                   disp, loop, ctl>>

QueueNext ==
    \/ \E batch \in QueueBatches : QueuePush(batch)
    \/ QueuePop

QueueSpec == QueueInit /\ [][QueueNext]_vars

(***************************************************************************)
(* 4.H DispatchTo on the instances of one registry.  Of an instance only   *)
(* what Dispatch touches is kept: its queue, its mutex and idle signal, and *)
(* a process loop that pops until the queue is empty.                      *)
(***************************************************************************)
instanceVars == <<state, queue, locked, signal, channels, closed, guards, cancelled,
                  registered, faulty, act, crashed, disp, loop, ctl, probe, hist>>

Without(signals, k) == [j \in (DOMAIN signals) \ {k} |-> signals[j]]

\* DispatchTo(ctx, event, maybeIds...): the goroutine is started
ToCall(c, patterns) ==
    /\ group.calls[c].pc = "none"
    /\ \A b \in ToCalls : b < c => group.calls[b].pc # "none"
    /\ group' = [group EXCEPT !.calls[c] =
                     [NoTo EXCEPT !.pc = "range", !.patterns = patterns, !.left = Instances]]
    /\ UNCHANGED instanceVars

\* one call of the function given to instances.Range, up to queue.push(event)
\* in Dispatch: an entry deleted from the map is not visited
ToVisit(c, k) ==
    /\ group.calls[c].pc = "range"
    /\ group.calls[c].pushed = 0
    /\ k \in group.calls[c].left
    /\ LET call == group.calls[c]
           present == group.instances[k].registered
           match == present /\ (Len(call.patterns) = 0 \/ Match(InstanceId(k), call.patterns))
       IN  group' = [group EXCEPT
                        !.calls[c].left = @ \ {k},
                        !.calls[c].seen = IF present THEN @ \cup {k} ELSE @,
                        !.calls[c].targeted = IF match THEN @ \cup {k} ELSE @,
                        !.calls[c].pushed = IF match THEN k ELSE 0,
                        !.instances[k].queue = IF match THEN Append(@, c) ELSE @]
    /\ UNCHANGED instanceVars

\* the rest of that Dispatch: tryLock() and go process() if it succeeds, then the
\* channel wait() returns is stored in signals
ToTryLock(c) ==
    /\ group.calls[c].pc = "range"
    /\ group.calls[c].pushed # 0
    /\ LET k == group.calls[c].pushed
           inst == group.instances[k]
           locking == [inst EXCEPT !.locked = TRUE, !.made = @ + 1, !.signal = inst.made + 1,
                                   !.pc = "run"]
           after == IF inst.locked THEN inst ELSE locking
       IN  group' = [group EXCEPT
                        !.instances[k] = after,
                        !.calls[c].pushed = 0,
                        !.calls[c].signals = (k :> after.signal) @@ @]
    /\ UNCHANGED instanceVars

\* Range has returned and the goroutine is in its loop over signals
Selecting(c) ==
    /\ group.calls[c].pc = "range"
    /\ group.calls[c].left = {}
    /\ group.calls[c].pushed = 0

\* case <-ch: delete(signals, i)
ToReceive(c, k) ==
    /\ Selecting(c)
    /\ k \in DOMAIN group.calls[c].signals
    /\ group.calls[c].signals[k] \in group.instances[k].closed
    /\ group' = [group EXCEPT !.calls[c].signals = Without(@, k)]
    /\ UNCHANGED instanceVars

\* case <-ctx.Done(): return
ToCtxDone(c) ==
    /\ Selecting(c)
    /\ DOMAIN group.calls[c].signals # {}
    /\ group.cancelled
    /\ group' = [group EXCEPT !.calls[c].pc = "closed", !.calls[c].cut = TRUE]
    /\ UNCHANGED instanceVars

\* len(signals) = 0: the goroutine returns and the deferred close(signal) runs
ToClose(c) ==
    /\ Selecting(c)
    /\ DOMAIN group.calls[c].signals = {}
    /\ group' = [group EXCEPT !.calls[c].pc = "closed"]
    /\ UNCHANGED instanceVars

\* process() of an instance: one sm.queue.pop(), and the step of the event if
\* there is one
GroupPop(k) ==
    /\ group.instances[k].pc = "run"
    /\ group' = [group EXCEPT !.instances[k] =
                     IF @.queue = <<>> THEN [@ EXCEPT !.pc = "drained"]
                     ELSE [@ EXCEPT !.queue = Tail(@), !.done = @ \cup {Head(group.instances[k].queue)}]]
    /\ UNCHANGED instanceVars

\* the deferred sm.processing.unlock() of process()
GroupUnlock(k) ==
    /\ group.instances[k].pc = "drained"
    /\ group' = [group EXCEPT !.instances[k] =
                     [@ EXCEPT !.pc = "none", !.locked = FALSE, !.closed = @ \cup {group.instances[k].signal}]]
    /\ UNCHANGED instanceVars

\* Stop(ctx, instance) on an idle instance: its context is cancelled and it is
\* deleted from the registry; the calls are made with the first instance's
\* Context() as ctx
GroupStop(k) ==
    /\ group.instances[k].registered
    /\ ~group.instances[k].locked
    /\ group' = [group EXCEPT !.instances[k].registered = FALSE,
                               !.cancelled = @ \/ k = 1]
    /\ UNCHANGED instanceVars

GroupNext ==
    \/ \E c \in ToCalls, patterns \in PatternLists : ToCall(c, patterns)
    \/ \E c \in ToCalls, k \in Instances : ToVisit(c, k)
    \/ \E c \in ToCalls : ToTryLock(c)
    \/ \E c \in ToCalls, k \in Instances : ToReceive(c, k)
    \/ \E c \in ToCalls : ToCtxDone(c)
    \/ \E c \in ToCalls : ToClose(c)
    \/ \E k \in Instances : GroupPop(k)
    \/ \E k \in Instances : GroupUnlock(k)
    \/ \E k \in Instances : GroupStop(k)

GroupSpec == QueueInit /\ [][GroupNext]_vars

(***************************************************************************)
(* 4.I Functions applied on their own: Match on a name and a list of       *)
(* patterns, and the declaration of one transition directly under the root *)
(* of the sample machine by Define.                                        *)
(***************************************************************************)
Alphabet == {"a", "b", "*"}
Strings == UNION {[1..n -> Alphabet] : n \in 0..MaxLen}
Lists == UNION {[1..n -> Strings] : n \in 0..MaxPatterns}

\* Source(name) / Target(name) with a string under the root: a name that is
\* not absolute is joined to the qualified name of the enclosing state
Qualify(name) == IF name[1] = "/" THEN name ELSE Join(Slash, name)

Missing == <<"/", "m">>
\* what is given to Source(), <<>> when Source() is not used; "s" is relative
GivenSources == {Empty, Slash, S, <<"s">>, Missing}
\* what is given to Target(), <<>> when Target() is not used
GivenTargets == {Empty, S, T, <<"t">>, Missing}

Accepted == ""
MissingSource == "missing source"
MissingTarget == "missing target"
TopLevel == "top level transitions must have a source and target, or no source and target"
NoEffect == "internal transitions require an effect"

\* the panic the declaration ends Define with (Accepted: none), for a
\* transition with a trigger that is declared under the root after the states
TransitionStrict(source, target, effect) ==
    IF (source = Empty) # (target = Empty) THEN TopLevel ELSE Accepted

Transition(source, target, effect) ==
    LET given == IF source = Empty THEN Dot ELSE Qualify(source)
        src == IF given = Dot \/ given = Empty THEN Root ELSE given
        tgt == IF target = Empty THEN Empty ELSE Qualify(target)
        kind == IF tgt = src THEN "Self"
                ELSE IF tgt = Empty THEN "Internal"
                ELSE IF IsAncestor(src, tgt) THEN "Local"
                ELSE "External"
    IN  IF src \notin VertexNames THEN MissingSource
        ELSE IF tgt # Empty /\ tgt \notin VertexNames THEN MissingTarget
        ELSE IF src = Root /\ tgt # Empty THEN TopLevel
        ELSE IF kind = "Internal" /\ ~effect THEN NoEffect
        ELSE Accepted

MatchProbes ==
    {[fn |-> "Match", pc |-> "call", value |-> v, patterns |-> l, ret |-> FALSE] :
        v \in Strings, l \in Lists}
TransitionProbes ==
    {[fn |-> "Transition", pc |-> "call", source |-> a, target |-> b, effect |-> e,
      ret |-> Accepted] : a \in GivenSources, b \in GivenTargets, e \in BOOLEAN}

ApplyInit ==
    /\ probe \in MatchProbes \cup TransitionProbes
    /\ act = NoActivity
    /\ group = GroupIdle
    /\ queue = [completionEvents |-> <<>>, events |-> <<>>]
    /\ hist = [op |-> ""]
    /\ state = Root
    /\ locked = FALSE
    /\ signal = 1
    /\ channels = 1
    /\ closed = {}
    /\ guards = [g \in Guards |-> TRUE]
    /\ cancelled = FALSE
    /\ registered = FALSE
    /\ faulty = FALSE
    /\ crashed = FALSE
    /\ disp = [i \in Slots |-> IdleSlot]
    /\ loop = [g \in Loops |-> NoLoop]
    /\ ctl = [j \in Controls |-> NoCtl]

applyVars == <<state, queue, locked, signal, channels, closed, guards, cancelled,
               registered, faulty, act, crashed, disp, loop, ctl, group, hist>>

\* Match(value, patterns...)
ApplyMatch ==
    /\ probe.fn = "Match"
    /\ probe.pc = "call"
    /\ probe' = [probe EXCEPT !.pc = "return", !.ret = Match(probe.value, probe.patterns)]
    /\ UNCHANGED applyVars

\* Define(..., Transition(Trigger, Source?, Target?, Effect?))
ApplyTransition ==
    /\ probe.fn = "Transition"
    /\ probe.pc = "call"
    /\ probe' = [probe EXCEPT !.pc = "return",
                              !.ret = Transition(probe.source, probe.target, probe.effect)]
    /\ UNCHANGED applyVars

ApplyNext ==
    \/ ApplyMatch
    \/ ApplyTransition

ApplySpec == ApplyInit /\ [][ApplyNext]_vars

(***************************************************************************)
(* 4.J The callers' context.  The callers give one cancellable context to  *)
(* their Dispatch calls and cancel it at any time.                         *)
(***************************************************************************)
\* cancel() of the context the callers give to Dispatch
CtxCancel ==
    /\ ~crashed
    /\ act.ctx = "live"
    /\ act' = [act EXCEPT !.ctx = "done"]
    /\ UNCHANGED <<probe, group, state, queue, locked, signal, channels, closed, guards, cancelled,
                   registered, faulty, crashed, disp, loop, ctl, hist>>

ScopeNext ==
    \/ \E i \in Slots, name \in TimerNames : CallersQuiet /\ DispatchPush(i, name)
    \/ \E g \in Loops : LoopEnter(g)
    \/ \E i \in Slots : DispatchErrorPush(i)
    \/ \E i \in Slots : DispatchTryLock(i)
    \/ \E i \in Slots : DispatchWait(i)
    \/ \E g \in Loops : LoopRun(g)
    \/ \E g \in Loops : LoopRequeue(g)
    \/ \E g \in Loops : LoopUnlock(g)
    \/ \E g \in Loops : LoopClose(g)
    \/ \E n \in Timers : TimerFire(n)
    \/ \E n \in Timers : TimerCancelled(n)
    \/ \E n \in Timers : TimerAck(n)
    \/ CtxCancel

\* the activity's goroutines acknowledge in time
ScopeInit ==
    /\ group = GroupIdle
    /\ probe = NoProbe
    /\ act = [NoActivity EXCEPT !.ctx = "live"]
    /\ state = Root
    /\ queue = [completionEvents |-> <<>>, events |-> <<>>]
    /\ locked = TRUE
    /\ signal = 1
    /\ channels = 1
    /\ closed = {}
    /\ guards = [g \in Guards |-> TRUE]
    /\ cancelled = FALSE
    /\ registered = TRUE
    /\ faulty = FALSE
    /\ crashed = FALSE
    /\ disp = [i \in Slots |-> IdleSlot]
    /\ loop = [g \in Loops |-> IF g = StartLoop THEN [NoLoop EXCEPT !.pc = "enter"] ELSE NoLoop]
    /\ ctl = [j \in Controls |-> NoCtl]
    /\ hist = [popped |-> [i \in EventIds |-> 0],
               fired |-> [i \in EventIds |-> 0],
               last |-> [i \in EventIds |-> ""],
               late |-> {},
               start |-> <<>>,
               first |-> [to |-> Empty, trace |-> <<>>],
               again |-> [to |-> Empty, trace |-> <<>>],
               stop |-> [from |-> Empty, trace |-> <<>>, outcome |-> ""],
               stale |-> 0,
               chain |-> NoChain,
               step |-> NoStep]

ScopeSpec == ScopeInit /\ [][ScopeNext]_vars

(***************************************************************************)
(* 4.K The Every activity: after timer.C the goroutine waits for the       *)
(* channel its Dispatch returned, then resets the timer.                   *)
(***************************************************************************)
\* case <-timer.C: <-hsm.Dispatch(hsm.Context(), event) has received from the
\* closed channel; timer.Reset(duration) and the select is reached again (the
\* rounds of the goroutine are cut once MaxQueued events wait in the queue)
EveryReceive(n) ==
    /\ ~crashed
    /\ disp[TimerSlot(n)].pc = "receive"
    /\ disp[TimerSlot(n)].ret \in closed
    /\ queueLen(queue) < MaxQueued
    /\ disp' = [disp EXCEPT ![TimerSlot(n)].pc = "timing"]
    /\ UNCHANGED <<probe, group, state, queue, locked, signal, channels, closed, guards, cancelled,
                   registered, faulty, act, crashed, loop, ctl, hist>>

\* the event names callers dispatch to the instance with the Every transition
EveryNames == { <<"v">>, <<"p">> }

\* one caller that waits for the process loop to end before its next call, and
\* the goroutines of the activity
EveryNext ==
    \/ \E i \in Slots, name \in EveryNames : CallersQuiet /\ DispatchPush(i, name)
    \/ \E g \in Loops : LoopEnter(g)
    \/ \E i \in Slots : DispatchErrorPush(i)
    \/ \E i \in Slots : DispatchTryLock(i)
    \/ \E i \in Slots : DispatchWait(i)
    \/ \E g \in Loops : LoopRun(g)
    \/ \E g \in Loops : LoopRequeue(g)
    \/ \E g \in Loops : LoopUnlock(g)
    \/ \E g \in Loops : LoopClose(g)
    \/ \E n \in Timers : TimerFire(n)
    \/ \E n \in Timers : EveryReceive(n)
    \/ \E n \in Timers : TimerCancelled(n)
    \/ \E n \in Timers : TimerAck(n)

\* the callers' context is never cancelled, the activity's goroutines
\* acknowledge as soon as they see the cancellation
EveryInit ==
    /\ group = GroupIdle
    /\ probe = NoProbe
    /\ act = NoActivity
    /\ state = Root
    /\ queue = [completionEvents |-> <<>>, events |-> <<>>]
    /\ locked = TRUE
    /\ signal = 1
    /\ channels = 1
    /\ closed = {}
    /\ guards = [g \in Guards |-> TRUE]
    /\ cancelled = FALSE
    /\ registered = TRUE
    /\ faulty = FALSE
    /\ crashed = FALSE
    /\ disp = [i \in Slots |-> IdleSlot]
    /\ loop = [g \in Loops |-> IF g = StartLoop THEN [NoLoop EXCEPT !.pc = "enter"] ELSE NoLoop]
    /\ ctl = [j \in Controls |-> NoCtl]
    /\ hist = [popped |-> [i \in EventIds |-> 0],
               fired |-> [i \in EventIds |-> 0],
               last |-> [i \in EventIds |-> ""],
               late |-> {},
               start |-> <<>>,
               first |-> [to |-> Empty, trace |-> <<>>],
               again |-> [to |-> Empty, trace |-> <<>>],
               stop |-> [from |-> Empty, trace |-> <<>>, outcome |-> ""],
               stale |-> 0,
               chain |-> NoChain,
               step |-> NoStep]

EverySpec == EveryInit /\ [][EveryNext]_vars

(***************************************************************************)
(* 4.L The process loop under a fair scheduler: a goroutine that can take  *)
(* its next step takes it.  The callers dispatch events that no behavior   *)
(* panics on, and wait for the instance to be idle before the next call.   *)
(***************************************************************************)
DeferNames == EventNames \ { <<"p">> }

DeferNext ==
    \/ \E i \in Slots, name \in DeferNames : Quiescent /\ DispatchPush(i, name)
    \/ \E g \in Loops : LoopEnter(g)
    \/ \E i \in Slots : DispatchTryLock(i)
    \/ \E i \in Slots : DispatchWait(i)
    \/ \E g \in Loops : LoopRun(g)
    \/ \E g \in Loops : LoopRequeue(g)
    \/ \E g \in Loops : LoopUnlock(g)
    \/ \E g \in Loops : LoopClose(g)

\* the steps of the goroutine that runs process() before and after its loop
LoopStep(g) == LoopEnter(g) \/ LoopRequeue(g) \/ LoopUnlock(g) \/ LoopClose(g)

\* the goroutine is about to pop: no behavior panics here and no crash can
\* precede, so LoopRun(g) is enabled
LoopRunnable(g) == loop[g].pc = "run"

DeferInit == Init /\ ~faulty

\* a goroutine that stays runnable is scheduled; the fairness of LoopRun spells
\* out WF_vars(LoopRun(g)) with the enabling condition written as LoopRunnable(g)
DeferSpec ==
    /\ DeferInit
    /\ [][DeferNext]_vars
    /\ \A g \in Loops : WF_vars(LoopStep(g))
    /\ \A g \in Loops : <>[]LoopRunnable(g) => []<><<LoopRun(g)>>_vars

(***************************************************************************)
(* 5. Properties.                                                          *)
(***************************************************************************)
\* the goroutines that are between taking the processing mutex and releasing it
Holders ==
    {g \in Loops : loop[g].pc \in {"enter", "run", "requeue", "unlock"}}
        \cup {<<"stop", j>> : j \in {k \in Controls : ctl[k].pc \in {"walk", "unlock"}}}

\* C1: the initial transition of Start, the process loops and the exit walk of
\* Stop/Restart never overlap: at most one goroutine is where it runs steps,
\* and it holds the processing mutex
C1_MutualExclusion ==
    /\ Cardinality(Holders) <= 1
    /\ Holders # {} => locked

\* a process loop a Dispatch call started is between steps while a Stop or
\* Restart call waits for the mutex
C1_Contention ==
    \E i \in CallerSlots, j \in Controls :
        /\ loop[DispLoop(i)].pc = "run"
        /\ hist.popped[i] > 0
        /\ ctl[j].pc = "lock"

\* only Dispatch calls of callers were made, none of their behaviors panicked,
\* and every goroutine of the instance has ended
DispatchOnlyIdle ==
    /\ Quiescent
    /\ ~crashed
    /\ \A j \in Controls : ctl[j].pc = "none"
    /\ \A i \in ErrorSlots : disp[i].pc = "idle"

\* C2: every event Dispatch pushed is popped without a further Dispatch call:
\* once the instance has gone idle, no returned Dispatch call's event is still
\* unpopped
C2_PushedEventIsPopped ==
    DispatchOnlyIdle => \A i \in CallerSlots : disp[i].pc = "done" => hist.popped[i] > 0

\* C3: when the channel Dispatch(e) returned is closed, e has been popped and
\* its step has run
C3_ClosedMeansProcessed ==
    \A i \in CallerSlots :
        /\ disp[i].pc = "done"
        /\ disp[i].ret \in closed
        /\ \A j \in Controls : ctl[j].pc = "none"
        /\ \A k \in ErrorSlots : disp[k].pc = "idle"
        => hist.popped[i] > 0

\* the last step was the RTC step of a popped event
EventStep == hist.step.outcome \in {"fired", "nil", "panic", "deferred", "dropped"}

\* the transitions an event triggers: those whose source is a state
Triggered == {t \in TransitionNames : IsStateElement(Transitions[t].source)}

\* the transitions that ran behaviors or entered or exited states in the last step
Tags == {hist.step.trace[n].by : n \in 1..Len(hist.step.trace)}

\* C4: at most one transition is selected and fired for a popped event: the
\* step names at most one, only that one's exits, effects and entries (and
\* those of the initial and choice segments continuing it) ran, and over the
\* whole run no event has fired more transitions than the times it was popped
C4_AtMostOneTransition ==
    /\ EventStep => /\ Len(hist.step.fired) <= 1
                    /\ Tags \cap Triggered \subseteq {hist.step.fired[n] : n \in 1..Len(hist.step.fired)}
    /\ \A i \in Slots : hist.fired[i] <= hist.popped[i]

\* an event fired a transition of the active state while a transition of an
\* ancestor was enabled for it too
C4_TwoCandidates ==
    /\ hist.step.from = B
    /\ hist.step.name = <<"c">>
    /\ hist.step.fired = <<"Bc">>
    /\ hist.step.to = T

\* C5: after Start and after every RTC step the active element is a State of
\* the model (a FinalState counts), never a pseudostate, a transition or absent
C5_ActiveIsState ==
    /\ state \in VertexNames
    /\ Vertices[state].kind \in {StateKind, FinalStateKind}

\* a step went through the choice pseudostate and ended in a state
C5_ThroughChoice ==
    /\ hist.step.fired = <<"Tw">>
    /\ hist.step.outcome = "fired"
    /\ "C2" \in Tags
    /\ state = T

\* p is q or an ancestor of q in the hierarchy of qualified names
AtOrAbove(p, q) ==
    \/ p = q
    \/ p = Slash /\ Len(q) > 0
    \/ Len(q) > Len(p) /\ SubSeq(q, 1, Len(p)) = p /\ q[Len(p) + 1] = "/"

\* t has an event pattern that matches the name, and no guard or a true one
IsEnabled(t, name) ==
    /\ \E k \in 1..Len(Transitions[t].events) : Match(name, <<Transitions[t].events[k]>>)
    /\ Transitions[t].guard # NoGuard => guards[Transitions[t].guard]

\* C6: the transition fired for an event belongs to a state on the active
\* chain, is enabled, comes before every other enabled transition of that
\* state, and no transition of a deeper state on the chain is enabled
C6_FirstEnabled ==
    (EventStep /\ hist.step.fired # <<>>) =>
        LET t == hist.step.fired[1]
            source == Transitions[t].source
            order == TransitionsOf[source]
        IN  /\ IsStateElement(source)
            /\ AtOrAbove(source, hist.step.from)
            /\ IsEnabled(t, hist.step.name)
            /\ \E n \in 1..Len(order) :
                   /\ order[n] = t
                   /\ \A m \in 1..(n - 1) : ~IsEnabled(order[m], hist.step.name)
            /\ \A q \in VertexNames :
                   (IsStateElement(q) /\ q # source /\ AtOrAbove(source, q)
                        /\ AtOrAbove(q, hist.step.from))
                   => \A m \in 1..Len(TransitionsOf[q]) :
                          ~IsEnabled(TransitionsOf[q][m], hist.step.name)

\* the guard of the active state's transition was false, so the transition of
\* its owner fired
C6_AncestorFires ==
    /\ hist.step.from = B
    /\ hist.step.name = <<"c">>
    /\ ~guards["g1"]
    /\ hist.step.fired = <<"Sc">>

\* exits come first, then effects, then entries
Rank(op) == IF op \in {"exited", "exit"} THEN 1 ELSE IF op = "effect" THEN 2 ELSE 3

\* what the last step logged for transition t under the operations ops
Logged(t, ops) == SelectSeq(hist.step.trace, LAMBDA l : l.by = t /\ l.op \in ops)

\* C7: within one transition the exit behaviors run first, innermost state
\* first, then the effects in declaration order, then the entry behaviors,
\* outermost state first
C7_ExitEffectEntryOrder ==
    /\ \A m \in 1..Len(hist.step.trace), n \in 1..Len(hist.step.trace) :
           (m < n /\ hist.step.trace[m].by = hist.step.trace[n].by) =>
               LET first == hist.step.trace[m]
                   second == hist.step.trace[n]
               IN  /\ Rank(first.op) <= Rank(second.op)
                   /\ (first.op = "exited" /\ second.op = "exited")
                          => (second.el # first.el /\ AtOrAbove(second.el, first.el))
                   /\ (first.op = "entered" /\ second.op = "entered")
                          => (second.el # first.el /\ AtOrAbove(first.el, second.el))
    /\ \A t \in Tags \cap TransitionNames :
           LET ran == Logged(t, {"effect"})
           IN  /\ Len(ran) <= Len(Transitions[t].effect)
               /\ \A k \in 1..Len(ran) : ran[k].b = Transitions[t].effect[k]
               /\ hist.step.outcome # "panic" => Len(ran) = Len(Transitions[t].effect)

\* a self transition ran: two states exited, its effect, its source entered
C7_SelfTransition ==
    /\ hist.step.fired = <<"Ab">>
    /\ hist.step.from = X
    /\ Len(Logged("Ab", {"exit"})) = 2
    /\ Len(Logged("Ab", {"effect"})) = 1
    /\ Len(Logged("Ab", {"entry"})) = 1

\* the lowest element at or above both ends of a transition; for a self
\* transition, above its source
Lowest(source, target) ==
    LET common == {p \in VertexNames : /\ AtOrAbove(p, source) /\ AtOrAbove(p, target)
                                       /\ source = target => p # source}
    IN  CHOOSE p \in common : \A r \in common : Len(r) <= Len(p)

\* the states from q up to, but excluding, lca
ChainStates(q, lca) ==
    {p \in VertexNames : IsStateElement(p) /\ AtOrAbove(p, q) /\ ~AtOrAbove(p, lca)}

\* a chain as a sequence, outermost state first
Down(chain) ==
    [n \in 1..Cardinality(chain) |->
        CHOOSE p \in chain : Cardinality({r \in chain : Len(r) < Len(p)}) = n - 1]

\* a chain as a sequence, innermost state first
Up(chain) ==
    [n \in 1..Cardinality(chain) |->
        CHOOSE p \in chain : Cardinality({r \in chain : Len(r) > Len(p)}) = n - 1]

\* the states the last step exited (ops = {"exited"}) or entered for t, in order
Elements(t, ops) == [n \in 1..Len(Logged(t, ops)) |-> Logged(t, ops)[n].el]

ActiveChain == {q \in VertexNames : IsStateElement(q) /\ AtOrAbove(q, hist.step.from)}

\* some transition of state q is enabled for the event of the last step
HasEnabled(q) ==
    \E m \in 1..Len(TransitionsOf[q]) : IsEnabled(TransitionsOf[q][m], hist.step.name)

\* state q lists the event of the last step in its deferral patterns
Defers(q) == Len(Vertices[q].deferred) > 0 /\ Match(hist.step.name, Vertices[q].deferred)

\* C9 as stated: an event is deferred only when no transition is enabled for
\* it on the active state or on any of its ancestors
C9_DeferredOnlyIfNoneEnabled ==
    (EventStep /\ hist.step.outcome = "deferred") => \A q \in ActiveChain : ~HasEnabled(q)

\* C9 as the program has it: an event is deferred only when some state of the
\* active chain lists it and no transition is enabled on that state or on any
\* state below it; and a transition fires only when no state below its source
\* lists the event
C9_DeferredOnlyIfNoneEnabledBelow ==
    /\ (EventStep /\ hist.step.outcome = "deferred") =>
           \E d \in ActiveChain :
               /\ Defers(d)
               /\ \A q \in ActiveChain : AtOrAbove(d, q) => ~HasEnabled(q)
    /\ (EventStep /\ hist.step.fired # <<>>) =>
           \A q \in ActiveChain :
               (q # Transitions[hist.step.fired[1]].source
                    /\ AtOrAbove(Transitions[hist.step.fired[1]].source, q))
               => ~Defers(q)

\* the active state deferred an event for which its ancestor has an enabled transition
C9_DeferredUnderEnabled ==
    /\ EventStep
    /\ hist.step.outcome = "deferred"
    /\ hist.step.from = X
    /\ HasEnabled(S)

\* how often the event of Dispatch call i is held: in the normal queue or in
\* the deferred list of a process loop
Held(i) ==
    Cardinality({n \in 1..Len(queue.events) : queue.events[n].id = i})
        + Cardinality({gn \in Loops \X (1..(MaxDispatch + MaxError)) :
                          /\ gn[2] <= Len(loop[gn[1]].deferred)
                          /\ loop[gn[1]].deferred[gn[2]].id = i})

\* C10: an event that was deferred is put back into the normal queue exactly
\* once: from its deferral on it is held exactly once, until it is popped again
C10_DeferredHeldOnce ==
    \A i \in Slots : hist.last[i] = "deferred" => Held(i) = 1

\* only Dispatch calls were made, and every goroutine of the instance has ended
Idle ==
    /\ Quiescent
    /\ ~crashed
    /\ \A j \in Controls : ctl[j].pc = "none"

\* C11: a deferred event is re-delivered once a transition has left the state
\* that deferred it: when the instance is idle, an event whose last step
\* deferred it is still deferred by a state of the active chain
C11_DeferredRedelivered ==
    Idle => \A i \in CallerSlots :
                hist.last[i] = "deferred" =>
                    \E d \in VertexNames :
                        /\ IsStateElement(d)
                        /\ AtOrAbove(d, state)
                        /\ Len(Vertices[d].deferred) > 0
                        /\ Match(disp[i].ev.name, Vertices[d].deferred)

\* the step pushed the loop's deferred events back into the queue
Requeued == EventStep /\ hist.step.requeued > 0

\* C12 (as stated): the loop pushes deferred events back only once it has
\* drained the queue: no event remains to be popped when they are pushed
C12_RequeueOnlyWhenDrained ==
    Requeued => hist.step.remaining = 0

\* C12: inside the loop run, deferred events are pushed back only right after a
\* step that fired a transition and stored the state it returned
C12_RequeueOnlyAfterFired ==
    Requeued => /\ hist.step.outcome = "fired"
                /\ Len(hist.step.fired) > 0
                /\ state = hist.step.to

\* deferred events went back into the queue behind events that the
\* loop run still had to pop
C12_RequeuedBeforeDrained ==
    /\ Requeued
    /\ hist.step.remaining > 0

\* C13: a completion event a behavior dispatches during a step is processed
\* before every normal event queued at that moment: no step processes a normal
\* event while a completion event waits, and the normal event a behavior
\* dispatched just before its completion event is never popped ahead of it
C13_CompletionBeforeNormal ==
    /\ (EventStep /\ hist.step.kind # CompletionEventKind) => hist.step.pending = 0
    /\ hist.popped[NormalId] <= hist.popped[CompletionId]

\* the completion event of a behavior is being processed while the normal event
\* the behavior dispatched before it and a caller's event are still queued
C13_CompletionOvertakes ==
    /\ EventStep
    /\ hist.step.id = CompletionId
    /\ hist.popped[NormalId] < hist.popped[CompletionId]
    /\ \E m, n \in 1..Len(queue.events) :
           /\ queue.events[m].id = NormalId
           /\ queue.events[n].id \in CallerSlots

\* the ids of the events in a sequence
IdsOf(events) == {events[n].id : n \in 1..Len(events)}

\* the events of the given kinds that were pushed and not returned before the last pop
Waiting(completion) ==
    {n \in 1..Len(hist.pushed) :
        /\ (hist.pushed[n].kind = CompletionEventKind) = completion
        /\ hist.pushed[n].id \notin IdsOf(hist.before)}

\* what the last pop had to return
Expected ==
    IF Waiting(TRUE) # {}
    THEN [event |-> hist.pushed[CHOOSE n \in Waiting(TRUE) : \A m \in Waiting(TRUE) : m <= n],
          ok |-> TRUE]
    ELSE IF Waiting(FALSE) # {}
    THEN [event |-> hist.pushed[CHOOSE n \in Waiting(FALSE) : \A m \in Waiting(FALSE) : n <= m],
          ok |-> TRUE]
    ELSE [event |-> NoEvent, ok |-> FALSE]

\* C14: after any pushes and pops, pop returns the completion event pushed most
\* recently if one waits, else the normal event pushed first, else the empty
\* event; no event is returned twice, none that was not pushed, and a pop
\* finds the queue empty only when every pushed event has been returned
C14_PopOrder ==
    /\ hist.op = "pop" => hist.ret = Expected
    /\ \A m, n \in 1..Len(hist.got) : hist.got[m] = hist.got[n] => m = n
    /\ \A n \in 1..Len(hist.got) : \E m \in 1..Len(hist.pushed) : hist.pushed[m] = hist.got[n]
    /\ (hist.op = "pop" /\ ~hist.ret.ok) => IdsOf(hist.got) = IdsOf(hist.pushed)
    /\ IdsOf(hist.pushed) = IdsOf(hist.got) \cup IdsOf(queue.events)
                                \cup IdsOf(queue.completionEvents)

\* a pop returned a completion event pushed after normal events that still wait,
\* and an earlier pop returned a normal event
C14_MixedPops ==
    /\ hist.op = "pop"
    /\ hist.ret.ok
    /\ hist.ret.event.kind = CompletionEventKind
    /\ Waiting(FALSE) # {}
    /\ \E n \in Waiting(FALSE) : n < hist.ret.event.id
    /\ \E n \in 1..Len(hist.before) : hist.before[n].kind # CompletionEventKind
    /\ Cardinality(Waiting(TRUE)) > 1

\* C15: an event dispatched after Stop's channel was closed is dropped: the
\* process loop never pops it and it fires no transition
C15_StoppedInstanceDrops ==
    \A i \in hist.late :
        /\ hist.popped[i] = 0
        /\ hist.fired[i] = 0

\* C16: once the channel Stop returned is closed, the instance is torn down:
\* its context is cancelled and it is no longer in the registry
C16_StoppedIsTornDown ==
    Stopped => /\ cancelled
               /\ ~registered

\* C17: whenever the channel Stop returned is closed, Stop has released the
\* processing mutex: it is held only if a process loop holds it
C17_StopReleasesMutex ==
    (Stopped /\ Holders = {}) => ~locked

Reverse(seq) == [n \in 1..Len(seq) |-> seq[Len(seq) + 1 - n]]

\* the states a trace entered (op = "entered") or exited (op = "exited"), in order
StatesOf(trace, op) ==
    LET logs == SelectSeq(trace, LAMBDA l : l.op = op)
    IN  [n \in 1..Len(logs) |-> logs[n].el]

\* the behaviors a trace ran as exit behaviors, in order
ExitsOf(trace) ==
    LET logs == SelectSeq(trace, LAMBDA l : l.op = "exit")
    IN  [n \in 1..Len(logs) |-> logs[n].b]

\* the exit behaviors of the given states, in order
RECURSIVE ExitBehaviors(_)
ExitBehaviors(states) ==
    IF states = <<>> THEN <<>>
    ELSE Vertices[Head(states)].exit \o ExitBehaviors(Tail(states))

\* a Stop call has walked right after Start or Restart: no event was processed
\* and no other exit walk was made since the instance was entered
StoppedFresh ==
    /\ hist.step.outcome \in {"stop", "aborted"}
    /\ hist.step.started # <<>>

InRootFinal ==
    /\ state \in VertexNames
    /\ Vertices[state].kind = FinalStateKind
    /\ Owner(state) = Root

\* C19: entering a final state owned by the root stops the instance: its context
\* is cancelled, it is out of the registry, and no event processed from the
\* final state fires a transition or runs a behavior
C19_RootFinalStops ==
    InRootFinal =>
        /\ cancelled
        /\ ~registered
        /\ (EventStep /\ hist.step.from = state) =>
               (hist.step.fired = <<>> /\ hist.step.trace = <<>>)

\* the states of a chain
StatesIn(chain) == SelectSeq(chain, IsStateElement)

\* a Restart call has entered the instance again, and only the goroutine of
\* that call has run the instance since
Reentered(j) ==
    /\ ctl[j].pc = "restarted"
    /\ hist.step.loop = CtlLoop(j)

\* the Restart call has returned: its process loop has released the mutex
RestartDone(j) ==
    /\ Reentered(j)
    /\ loop[CtlLoop(j)].pc = "none"

C21_PanicNeverReachesCaller ==
    /\ \A g \in Loops : loop[g].pc # "panicked"
    /\ (EventStep /\ hist.step.outcome = "panic") =>
           \E i \in ErrorSlots : disp[i].pc # "idle"

\* C22: when an activity has not acknowledged the cancellation within
\* ActivityTimeout at the exit of its state, the exit goes on and an Error event
\* is dispatched for it: a step dispatches one for every activity it
\* terminated that did not acknowledge in time
C22_TimeoutDispatchesError ==
    EventStep => hist.step.timeouts = hist.step.unacked

\* C23: a time event produced during an earlier entry of the source state never
\* fires the After transition: the time event that fires it was dispatched by
\* the goroutine started at the latest entry
C23_StaleTimerNeverFires ==
    (EventStep /\ \E n \in 1..Len(hist.step.fired) : hist.step.fired[n] = "Wt") =>
        hist.step.id = TimerSlot(hist.step.cur)

\* the outgoing transitions of a vertex that ran in the last step, in the order
\* of the vertex
Taken(vertex) == SelectSeq(TransitionsOf[vertex], LAMBDA t : t \in Tags)

\* the first of the transitions, in order, whose guard is absent or true
FirstTrue(order) ==
    order[CHOOSE n \in 1..Len(order) :
              /\ Transitions[order[n]].guard # NoGuard => guards[Transitions[order[n]].guard]
              /\ \A m \in 1..(n - 1) : /\ Transitions[order[m]].guard # NoGuard
                                       /\ ~guards[Transitions[order[m]].guard]]

\* C24: when a step reaches the choice pseudostate, exactly one of its outgoing
\* transitions is taken: the first, in declaration order, whose guard is true,
\* or the last, unguarded one when every earlier guard is false; the step goes
\* on into the target of that transition and the choice is not the active state
\* afterwards
C24_ChoiceTakesFirstTrue ==
    (EventStep /\ hist.step.outcome = "fired" /\ hist.step.fired # <<>>
         /\ Transitions[hist.step.fired[1]].target = C) =>
        /\ Taken(C) = <<FirstTrue(Vertices[C].declared)>>
        /\ state = Transitions[FirstTrue(Vertices[C].declared)].target
        /\ hist.step.to = state
        /\ state # C

\* a step reached the choice with the guard of its first transition false and
\* went on through the last, unguarded one
C24_DefaultBranch ==
    /\ hist.step.fired = <<"Xa">>
    /\ hist.step.outcome = "fired"
    /\ ~guards["g2"]
    /\ Taken(C) = <<"C2">>
    /\ state = T

\* the transition of the initial pseudostate of a state
InitialOf(q) == Vertices[Vertices[q].initial].declared[1]

\* the state reached from q by default entry: the initial transitions are
\* followed, and choices resolved, until a state without one is reached
RECURSIVE DefaultLeaf(_)
DefaultLeaf(q) ==
    IF Vertices[q].kind = ChoiceKind
    THEN DefaultLeaf(Transitions[FirstTrue(Vertices[q].declared)].target)
    ELSE IF Vertices[q].initial = Empty THEN q
    ELSE DefaultLeaf(Transitions[InitialOf(q)].target)

\* the entry behaviors and initial effects of a default entry of q, outermost
\* first
RECURSIVE DefaultBehaviors(_)
DefaultBehaviors(q) ==
    IF Vertices[q].kind = ChoiceKind
    THEN Transitions[FirstTrue(Vertices[q].declared)].effect
             \o DefaultBehaviors(Transitions[FirstTrue(Vertices[q].declared)].target)
    ELSE IF Vertices[q].initial = Empty THEN Vertices[q].entry
    ELSE Vertices[q].entry \o Transitions[InitialOf(q)].effect
             \o DefaultBehaviors(Transitions[InitialOf(q)].target)

\* the behaviors a trace ran, in order
BehaviorsOf(trace) ==
    LET ran == SelectSeq(trace, LAMBDA l : l.op \in {"entry", "effect", "exit"})
    IN  [n \in 1..Len(ran) |-> ran[n].b]

\* Start has run the initial transition and it did not panic
Started ==
    /\ hist.step.outcome = "start"
    /\ hist.step.loop = StartLoop
    /\ loop[StartLoop].pc # "panicked"

\* C25: Start leaves the instance in the state reached by following the
\* top-level initial transition and the initial transition of every composite
\* state entered by default; the states are entered, and their entry
\* behaviors and the initial effects run, outermost first; the active state
\* is a state without an initial transition
C25_StartFollowsInitials ==
    Started =>
        /\ state = DefaultLeaf(Root)
        /\ StatesOf(hist.step.trace, "entered") = Down(ChainStates(state, Empty))
        /\ BehaviorsOf(hist.step.trace) = DefaultBehaviors(Root)
        /\ Vertices[state].kind = StateKind
        /\ Vertices[state].initial = Empty

\* Start went three levels down, from the root to /s/a/x
C25_StartReachesLeaf ==
    /\ Started
    /\ state = X
    /\ Len(StatesOf(hist.step.trace, "entered")) = 4
    /\ Len(BehaviorsOf(hist.step.trace)) = 6

\* the last step fired a transition without a target, and its effects returned
InternalStep ==
    /\ EventStep
    /\ hist.step.outcome # "panic"
    /\ hist.step.fired # <<>>
    /\ Transitions[hist.step.fired[1]].target = Empty

\* C26: an internal transition runs its effects and nothing else: no state is
\* exited or entered, no exit or entry behavior runs, no activity is cancelled
\* or started, and the active state is the one it was
C26_InternalRunsOnlyEffects ==
    InternalStep =>
        /\ hist.step.outcome = "fired"
        /\ \A n \in 1..Len(hist.step.trace) : hist.step.trace[n].op = "effect"
        /\ BehaviorsOf(hist.step.trace) = Transitions[hist.step.fired[1]].effect
        /\ hist.step.timeouts = 0
        /\ hist.step.unacked = 0
        /\ hist.step.to = hist.step.from
        /\ state = hist.step.from

\* an internal transition of /w fired while the activity of /w was running
C26_InternalWhileActive ==
    /\ InternalStep
    /\ hist.step.fired = <<"We">>
    /\ state = W
    /\ act.active
    /\ act.cur \notin act.done

\* the last step fired a transition whose target is a proper ancestor of its
\* source, and no behavior panicked
AncestorStep ==
    /\ EventStep
    /\ hist.step.outcome # "panic"
    /\ hist.step.fired # <<>>
    /\ Transitions[hist.step.fired[1]].target # Empty
    /\ Transitions[hist.step.fired[1]].target # Transitions[hist.step.fired[1]].source
    /\ AtOrAbove(Transitions[hist.step.fired[1]].target, Transitions[hist.step.fired[1]].source)

\* C27: a transition whose target is a proper ancestor of its source exits the
\* states from the active one up to, but excluding, the target, innermost
\* first, runs its effects, enters no state, runs no entry behavior and no
\* initial transition, and leaves the target as the active state
C27_AncestorTargetNotEntered ==
    AncestorStep =>
        LET t == hist.step.fired[1]
            exited == Up(ChainStates(hist.step.from, Transitions[t].target))
        IN  /\ hist.step.outcome = "fired"
            /\ StatesOf(hist.step.trace, "exited") = exited
            /\ BehaviorsOf(hist.step.trace) = ExitBehaviors(exited) \o Transitions[t].effect
            /\ \A n \in 1..Len(hist.step.trace) :
                   /\ hist.step.trace[n].op \notin {"entered", "entry", "started"}
                   /\ hist.step.trace[n].by = t
            /\ hist.step.to = Transitions[t].target
            /\ state = Transitions[t].target

\* the transition from /s/b to its owner /s left the composite state /s active
\* with its initial transition not taken
C27_OwnerLeftActive ==
    /\ AncestorStep
    /\ hist.step.fired = <<"Bd">>
    /\ hist.step.from = B
    /\ state = S
    /\ Vertices[S].initial # Empty
    /\ BehaviorsOf(hist.step.trace) = <<"b.exit", "Bd.effect">>

\* the events in the queue that a behavior dispatched
Reentrant ==
    {n \in 1..Len(queue.completionEvents) :
        queue.completionEvents[n].id \in {NormalId, CompletionId}}
    \cup {Len(queue.completionEvents) + n : n \in
             {m \in 1..Len(queue.events) : queue.events[m].id \in {NormalId, CompletionId}}}

\* C28: an event a behavior dispatched on its own instance during a step is
\* processed by the loop that ran the step before that loop releases the
\* mutex: whenever the mutex is free, no such event is left in the queue
C28_ReentrantEventDrained ==
    ~locked => Reentrant = {}

\* the registered instances whose id matches one of the patterns of call c, or
\* all of them if it has none
Targets(c) ==
    {k \in group.calls[c].seen :
        \/ Len(group.calls[c].patterns) = 0
        \/ \E n \in 1..Len(group.calls[c].patterns) :
               Match(InstanceId(k), <<group.calls[c].patterns[n]>>)}

\* C29: DispatchTo dispatches to exactly the registered instances whose id
\* matches at least one pattern, to every registered one when there is no
\* pattern, and the channel it returned is closed only after every instance it
\* dispatched to has processed the event
C29_DispatchToWaitsForTargets ==
    \A c \in ToCalls :
        /\ Selecting(c) \/ group.calls[c].pc = "closed" =>
               group.calls[c].targeted = Targets(c)
        /\ group.calls[c].pc = "closed" =>
               \A k \in group.calls[c].targeted : c \in group.instances[k].done

\* the place of transition t in the declarations of its source
Place(t) ==
    CHOOSE n \in 1..Len(Vertices[Transitions[t].source].declared) :
        Vertices[Transitions[t].source].declared[n] = t

\* C30: in every state, the root included, a transition with wildcard-free
\* event names wins over one with a wildcard pattern when both are enabled for
\* the event, wherever they are declared; among transitions of the same class
\* the one declared first wins
C30_SpecificBeforeWildcard ==
    (EventStep /\ hist.step.fired # <<>>) =>
        LET t == hist.step.fired[1]
            declared == Vertices[Transitions[t].source].declared
        IN  \A n \in 1..Len(declared) :
                IsEnabled(declared[n], hist.step.name) =>
                    IF hasWildcard(Transitions[declared[n]].events) = hasWildcard(Transitions[t].events)
                    THEN Place(t) <= n
                    ELSE ~hasWildcard(Transitions[t].events)

\* the glob reading of a pattern: '*' stands for any run of characters, every
\* other character for itself
RECURSIVE Glob(_, _)
Glob(name, pattern) ==
    IF pattern = Empty THEN name = Empty
    ELSE IF Head(pattern) = "*"
    THEN \E k \in 0..Len(name) : Glob(SubSeq(name, k + 1, Len(name)), Tail(pattern))
    ELSE /\ name # Empty
         /\ Head(name) = Head(pattern)
         /\ Glob(Tail(name), Tail(pattern))

Returned(fn) == probe.fn = fn /\ probe.pc = "return"

\* C31: for every name and single pattern, Match(name, pattern) is true
\* exactly when the whole name matches the pattern read as a glob; Match(x, x)
\* and Match(x, "*") are true for every x
C31_MatchIsGlob ==
    Returned("Match") /\ Len(probe.patterns) = 1 =>
        /\ probe.ret = Glob(probe.value, probe.patterns[1])
        /\ probe.patterns[1] \in {probe.value, <<"*">>} => probe.ret

\* a match that parse finds only after it has backtracked to the last '*'
C31_Backtracked ==
    /\ Returned("Match")
    /\ probe.value = <<"a", "a", "b">>
    /\ probe.patterns = << <<"*", "a", "b">> >>
    /\ probe.ret

\* C32: for every name and list of patterns, Match(name, p1..pn) is true
\* exactly when the name matches at least one of the patterns, whatever their
\* order and whatever the other patterns are
C32_MatchAnyPattern ==
    Returned("Match") =>
        probe.ret = (\E i \in 1..Len(probe.patterns) :
                        Glob(probe.value, probe.patterns[i]))

\* exactly one of Source() and Target() is used in the declaration
OneOfSourceAndTarget == (probe.source = Empty) # (probe.target = Empty)

\* the declaration names states of the model only and has an effect
WellFormed ==
    /\ probe.source = Empty \/ Qualify(probe.source) \in VertexNames
    /\ probe.target = Empty \/ Qualify(probe.target) \in VertexNames
    /\ probe.effect

C34_ClosedOnceByOwnRelease ==
    /\ locked => signal \notin closed
    /\ ~crashed
    /\ Quiescent /\ ~locked => closed = 1..channels


\* C35: the cancellation scope of an activity is cancelled only when its
\* owning state is exited or the instance is stopped: a goroutine of the
\* activity that has returned through ctx.Done() (it made no Dispatch call)
\* belongs to an entry that terminate() has cancelled, whatever becomes of the
\* context given to the Dispatch call that entered the state
C35_CancelledOnlyOnExit ==
    \A n \in Timers :
        disp[TimerSlot(n)].pc \in {"done", "ended"} /\ disp[TimerSlot(n)].ret = 0
            => n \in act.done


\* the last step exited the state of the activity: terminate() ran for the
\* goroutine the latest entry before the step had started
Terminated ==
    /\ EventStep
    /\ \E k \in 1..Len(hist.step.trace) : hist.step.trace[k].op = "terminated"

\* C36: at the exit of a state the wait for the acknowledgement of its
\* activity ends only when the goroutine started by the most recent entry has
\* returned and acknowledged, or when ActivityTimeout has elapsed: after a step
\* that terminated the activity without a timeout, that goroutine has ended
C36_AcknowledgedByCurrentRun ==
    Terminated /\ hist.step.timeouts = 0 =>
        disp[TimerSlot(hist.step.cur)].pc = "ended"


\* C37: when the time event of the Every transition fires a transition that
\* exits the source state of the Every, the exit runs without waiting out
\* ActivityTimeout and without an ErrorEvent for a terminate timeout
C37_EveryExitWithoutTimeout ==
    (EventStep /\ \E k \in 1..Len(hist.step.fired) : hist.step.fired[k] = "Vt") =>
        hist.step.timeouts = 0


\* the recorded active state with all its ancestors
Recorded == {q \in VertexNames : IsStateElement(q) /\ AtOrAbove(q, state)}

\* Start or an RTC step is the last thing that ran
AfterStep == hist.step.outcome \in {"start", "fired", "nil", "deferred", "dropped"}

\* C38: in every execution in which no behavior panics, the entries and exits
\* of each state alternate strictly, starting with an entry, and after Start
\* and after every RTC step the states entered and not yet exited are exactly
\* the recorded active state and its ancestors
C38_EnteredIsActiveChain ==
    ~hist.chain.panicked =>
        /\ hist.chain.ok
        /\ AfterStep => hist.chain.open = Recorded


\* C39: when a behavior panics in the middle of a transition, the instance is
\* consistent after the recovery: no state of the recorded active chain has had
\* an exit behavior run, or an activity cancelled, in the step that panicked
\* without having been entered again in that step
C39_ConsistentAfterPanic ==
    hist.step.outcome = "panic" =>
        \A k \in 1..Len(hist.step.trace) :
            (hist.step.trace[k].op \in {"exit", "terminated"}
                /\ hist.step.trace[k].el \in Recorded) =>
                \E m \in (k + 1)..Len(hist.step.trace) :
                    /\ hist.step.trace[m].op = "entered"
                    /\ hist.step.trace[m].el = hist.step.trace[k].el


\* C40: every run of the process loop ends and releases the processing mutex
\* once no new events are dispatched: however the deferred events are pushed
\* back, the loop does not pop and defer them forever
C40_LoopEnds ==
    \A g \in Loops : (loop[g].pc = "run") ~> (loop[g].pc = "none" /\ ~locked)

\* a loop has ended after it popped an event, deferred it, pushed it back after
\* a transition fired, popped it and deferred it again
C40_DeferredTwiceInOneRun ==
    /\ Quiescent
    /\ ~locked
    /\ \E i \in CallerSlots : hist.popped[i] = 3 /\ hist.last[i] = "deferred"

====
